---- MODULE Spec2Model ----
(***************************************************************************)
(* A model of the rendering core of viol (src/src/viol/core): the          *)
(* attribute map, the event handler and its method/rule indirection, the   *)
(* event-handler list with its trigger rewrite, the element renderer, the  *)
(* chained render context and the per-call context discipline; and of      *)
(* corex (src/src/corex): the component tree, the app that serves it and   *)
(* the button that requests an action.                                     *)
(*                                                                         *)
(* Strings are sequences of one-character strings, so that the regular     *)
(* expression of EventHandlerList.validate and html.escape act on the      *)
(* characters as the code does.  Markup is a sequence of tokens.           *)
(***************************************************************************)
EXTENDS Integers, Sequences, FiniteSets, TLC

VARIABLES
    nodes,      \* element -> its tag, kind (void or not) and children
    attrs,      \* element -> its AttrMultiDict (ordered <<key, value>> pairs)
    events,     \* element -> its EventHandlerList (sequence of handlers)
    handler,    \* a free-standing EventHandler (its ordered items)
    ctxs,       \* the ContextDict objects: data, parent (0: None), component
    cstack,     \* thread -> its stack of execution contexts (contextvars.Context),
                \*   each the value render_ctx has in it (0: None)
    frames,     \* thread -> its unfinished render calls, outermost first
    tout,       \* thread -> what its render has produced so far
    tstate,     \* thread -> "idle", "running", "raising", "done" or "raised"
    raiser,     \* the component whose render logic raises (0: none does)
    heap,       \* the EventHandler objects by identity: object -> its items
    refs,       \* element -> the objects its event list holds, in order
    comps,      \* corex component -> its id, children and parent (0: None)
    app,        \* the CorexApp: root component (0: None), registered actions
    last        \* the most recent call: operation, arguments, result

elemVars == <<nodes, attrs, events>>
callVars == <<cstack, frames, tout, tstate, raiser>>
nonElemVars == <<handler, ctxs, callVars>>
objVars == <<heap, refs>>
vars == <<nodes, attrs, events, handler, ctxs, callVars, objVars, comps, app, last>>

\* ------------------------------------------------------------------ bounds
\* Most handlers the event lists hold together when triggers are bound.
MaxBound == 2
\* Most handlers the event lists of a rendered tree hold together.
MaxEvents == 3
\* Length of the chain of contexts that lookups and deletes walk.
MaxChain == 3

\* ----------------------------------------------------------------- strings
Lower == {"a","b","c","d","e","f","g","h","i","j","k","l","m",
          "n","o","p","q","r","s","t","u","v","w","x","y","z"}
Upper == {"A","B","C","D","E","F","G","H","I","J","K","L","M",
          "N","O","P","Q","R","S","T","U","V","W","X","Y","Z"}
Digits == {"0","1","2","3","4","5","6","7","8","9"}

\* \w of Python's re on str, restricted to ASCII.
WordChars == Lower \cup Upper \cup Digits \cup {"_"}

\* The character class [#\w] of the pattern in EventHandlerList.validate.
SelChars == WordChars \cup {"#"}

\* The keyword of the look-behind (?<=from:).
FromKw == <<"f","r","o","m",":">>

RECURSIVE Flatten(_)
Flatten(ss) == IF ss = <<>> THEN <<>> ELSE Head(ss) \o Flatten(Tail(ss))

\* ------------------------------------------------ CIMultiDict / AttrMultiDict
\* A map is the sequence of its <<key, value>> items in insertion order.
\* Keys compare by their identity (CIMultiDict lower-cases them).
KeyIdentity(k) ==
    CASE k = "ID" -> "id"
      [] k = "Id" -> "id"
      [] k = "CLASS" -> "class"
      [] k = "Class" -> "class"
      [] OTHER -> k

DataIndex(d, k) ==
    LET hits == {i \in 1..Len(d) : KeyIdentity(d[i][1]) = KeyIdentity(k)}
    IN IF hits = {} THEN 0 ELSE CHOOSE i \in hits : \A j \in hits : i <= j

DataHas(d, k) == DataIndex(d, k) # 0

DataGet(d, k) == d[DataIndex(d, k)][2]

\* CIMultiDict.__setitem__: replace the first item of that identity in place
\* (key and value), else add at the end.
DataSet(d, k, v) ==
    IF DataHas(d, k)
    THEN [d EXCEPT ![DataIndex(d, k)] = <<k, v>>]
    ELSE Append(d, <<k, v>>)

DataDel(d, k) ==
    LET i == DataIndex(d, k)
    IN SubSeq(d, 1, i - 1) \o SubSeq(d, i + 1, Len(d))

\* A value is a string (its characters) or a list of strings: the marker
\* "LIST" followed by the members.
ListValue(names) == <<"LIST">> \o names

IsList(v) == Len(v) >= 1 /\ v[1] = "LIST"

Names(v) == Tail(v)

\* AttrMultiDict.__getitem__: reading "class" (this spelling) when the key is
\* absent stores an empty list first.  Returns the map after the read.
AttrGetItemData(d, key) ==
    IF key = "class" /\ ~DataHas(d, key) THEN DataSet(d, key, ListValue(<<>>)) ELSE d

\* A read that raises KeyError has ok = FALSE.
AttrGetItem(d, key) ==
    LET d2 == AttrGetItemData(d, key)
    IN IF DataHas(d2, key)
       THEN [ok |-> TRUE, val |-> DataGet(d2, key), data |-> d2]
       ELSE [ok |-> FALSE, val |-> <<>>, data |-> d2]

\* AttrMultiDict.__setitem__ for keys other than "class".
AttrSetItem(d, key, value) == DataSet(d, key, value)

\* ------------------------------------------------------------ EventHandler
Methods == {"get", "post", "put", "patch", "delete"}

MethodKey(m) ==
    CASE m = "get" -> "hx-get"
      [] m = "post" -> "hx-post"
      [] m = "put" -> "hx-put"
      [] m = "patch" -> "hx-patch"
      [] m = "delete" -> "hx-delete"
      [] m = "head" -> "hx-head"
      [] OTHER -> "hx-None"

\* EventHandler.__init__: the fields in the order of the dict literal, those
\* with a falsy (empty) value left out.  An absent field is the empty string.
EventHandlerInit(rule, method, trigger, target) ==
    SelectSeq(<< <<MethodKey(method), rule>>,
                 <<"hx-trigger", trigger>>,
                 <<"hx-target", target>> >>,
              LAMBDA kv : kv[2] # <<>>)

\* -------------------------------------------------- EventHandlerList.validate
\* (?<=from:) at position i: the five characters before i are "from:".
LookBehind(s, i) == i > Len(FromKw) /\ SubSeq(s, i - Len(FromKw), i - 1) = FromKw

\* Greedy [#\w]+ starting at i: the last index of the run.
RECURSIVE RunEnd(_, _)
RunEnd(s, i) == IF i < Len(s) /\ s[i + 1] \in SelChars THEN RunEnd(s, i + 1) ELSE i

\* re.sub(r"(?<=from:)([#\w]+)", match, s) from position i on: every
\* non-overlapping match, left to right, is replaced by repl; found is what
\* Match.found ends as.
RECURSIVE ReSub(_, _, _)
ReSub(s, i, repl) ==
    IF i > Len(s) THEN [out |-> <<>>, found |-> FALSE]
    ELSE IF LookBehind(s, i) /\ s[i] \in SelChars
         THEN LET rest == ReSub(s, RunEnd(s, i) + 1, repl)
              IN [out |-> repl \o rest.out, found |-> TRUE]
         ELSE LET rest == ReSub(s, i + 1, repl)
              IN [out |-> <<s[i]>> \o rest.out, found |-> rest.found]

\* A rewrite that leaves out the "if not match.found" branch.
RewriteTriggerNoAppend(trigger, id) == ReSub(trigger, 1, <<"#">> \o id).out

\* The trigger as validate stores it, for the owner's id.
RewriteTrigger(trigger, id) ==
    LET repl == <<"#">> \o id
        m == ReSub(trigger, 1, repl)
    IN IF m.found THEN m.out ELSE m.out \o <<" ">> \o FromKw \o repl

\* validate(value) on the list bound to an element with attribute map d.
\* The value is copied; a handler without hx-trigger is stored as it is;
\* otherwise the owner's id is read (KeyError when the element has none, the
\* insertion then fails) and the trigger rewritten.
Validate(value, d) ==
    IF ~DataHas(value, "hx-trigger") THEN [ok |-> TRUE, event |-> value]
    ELSE LET id == AttrGetItem(d, "id")
         IN IF ~id.ok THEN [ok |-> FALSE, event |-> value]
            ELSE [ok |-> TRUE,
                  event |-> AttrSetItem(value, "hx-trigger",
                               RewriteTrigger(DataGet(value, "hx-trigger"), id.val))]

\* ------------------------------------------------------------ ValidatedList
Elems == {1, 2}

Threads == {1, 2}

\* No render call is under way.
NoCalls ==
    /\ cstack = [t \in Threads |-> <<0>>]
    /\ frames = [t \in Threads |-> <<>>]
    /\ tout = [t \in Threads |-> <<>>]
    /\ tstate = [t \in Threads |-> "idle"]
    /\ raiser = 0

\* No handler object is tracked by identity.
NoObjs ==
    /\ heap = <<>>
    /\ refs = [e \in Elems |-> <<>>]

\* The corex components, which are objects of their own.
Components == {1, 2, 3}

\* corex Component(id): no children, no parent.
CorexComponent(id) == [id |-> id, children |-> <<>>, parent |-> 0]

\* The ids the components are constructed with: two share an id, and no
\* component has the id "c".
CorexIds == <<"a", "b", "b">>

\* The ids and the action names that requests and registrations name.
RequestIds == {"a", "b", "c"}

ActionNames == {"inc", "dec"}

\* CorexApp(): no root component, no action registered.
CorexApp ==
    [root_component |-> 0,
     component_actions |-> [k \in RequestIds \X ActionNames |-> "none"]]

\* The corex components and the app as constructed.
NoComps ==
    /\ comps = [c \in Components |-> CorexComponent(CorexIds[c])]
    /\ app = CorexApp

\* An element's fixed part: tag, whether it is a VoidElement, and children
\* (a list of child elements and strings).
Node(tag, void, children) == [tag |-> tag, void |-> void, children |-> children]

LeafNode(tag) == Node(tag, FALSE, <<>>)

ChildEl(e) == [t |-> "el", v |-> e]

ChildStr(s) == [t |-> "str", v |-> s]

InsertAt(l, i, x) == SubSeq(l, 1, i - 1) \o <<x>> \o SubSeq(l, i, Len(l))

RemoveAt(l, i) == SubSeq(l, 1, i - 1) \o SubSeq(l, i + 1, Len(l))

TotalEvents == Len(events[1]) + Len(events[2])

\* The record of a call on an event list: the values handed in (args), the
\* index the first of them was stored at (0: none), whether it raised.
ListCall(op, e, i, args, raised) ==
    [op |-> op, e |-> e, i |-> i, args |-> args, raised |-> raised]

\* ValidatedList.insert(i, value): list.insert(i, self.validate(value)).
\* Positions are 1-based here: i is where the value ends up.
ListInsert(e, i, value) ==
    LET r == Validate(value, attrs[e])
    IN /\ events' = IF r.ok THEN [events EXCEPT ![e] = InsertAt(@, i, r.event)]
                    ELSE events
       /\ last' = ListCall("insert", e, IF r.ok THEN i ELSE 0, <<value>>, ~r.ok)
       /\ UNCHANGED <<objVars, comps, app, nodes, attrs, nonElemVars>>

\* MutableSequence.append(value): self.insert(len(self), value).
ListAppend(e, value) ==
    LET r == Validate(value, attrs[e])
    IN /\ events' = IF r.ok THEN [events EXCEPT ![e] = Append(@, r.event)]
                    ELSE events
       /\ last' = ListCall("append", e, IF r.ok THEN Len(events[e]) + 1 ELSE 0,
                           <<value>>, ~r.ok)
       /\ UNCHANGED <<objVars, comps, app, nodes, attrs, nonElemVars>>

\* ValidatedList.__setitem__(i, value): self._data[i] = self.validate(value).
ListSetItem(e, i, value) ==
    LET r == Validate(value, attrs[e])
    IN /\ events' = IF r.ok THEN [events EXCEPT ![e][i] = r.event] ELSE events
       /\ last' = ListCall("setitem", e, IF r.ok THEN i ELSE 0, <<value>>, ~r.ok)
       /\ UNCHANGED <<objVars, comps, app, nodes, attrs, nonElemVars>>

\* MutableSequence.extend(values): append each in turn; the first append
\* that raises ends the loop, the values before it stay appended.
RECURSIVE ExtendData(_, _, _)
ExtendData(l, values, d) ==
    IF values = <<>> THEN [data |-> l, raised |-> FALSE]
    ELSE LET r == Validate(Head(values), d)
         IN IF r.ok THEN ExtendData(Append(l, r.event), Tail(values), d)
            ELSE [data |-> l, raised |-> TRUE]

ListExtend(e, values) ==
    LET r == ExtendData(events[e], values, attrs[e])
    IN /\ events' = [events EXCEPT ![e] = r.data]
       /\ last' = ListCall("extend", e,
                           IF Len(r.data) > Len(events[e]) THEN Len(events[e]) + 1 ELSE 0,
                           values, r.raised)
       /\ UNCHANGED <<objVars, comps, app, nodes, attrs, nonElemVars>>

\* ValidatedList.__delitem__(i).
ListDelItem(e, i) ==
    /\ events' = [events EXCEPT ![e] = RemoveAt(@, i)]
    /\ last' = ListCall("delitem", e, 0, <<>>, FALSE)
    /\ UNCHANGED <<objVars, comps, app, nodes, attrs, nonElemVars>>

\* --------------------------------------------------- binding: inputs, Spec
\* Element ids and trigger expressions the handlers are built from.
IdBtn1 == <<"b","t","n","1">>
IdMyDiv == <<"m","-","d">>
IdC2 == <<"c","_","2">>

TClick == <<"c","k">>
TFromId == <<"c","k"," ">> \o FromKw \o <<"#","o","t">>
TFromWord == <<"c","k"," ">> \o FromKw \o <<"o","t">>
TFromHyphen == <<"c","k"," ">> \o FromKw \o <<"#","o","-","t">>
TFromSuffix == <<"k","u"," ">> \o FromKw \o <<"#","o","t"," ","d",":","1">>
TDangling == <<"c","k"," ">> \o FromKw
TFromClass == <<"c","k"," ">> \o FromKw \o <<".","c">>

Triggers == {TClick, TFromId, TFromWord, TFromHyphen, TFromSuffix, TDangling, TFromClass}

RuleA == <<"/","a">>
RuleB == <<"/","b">>
TargetOut == <<"#","o">>

\* Handlers as a caller builds them: with each trigger, and without one.
BindHandlers ==
    {EventHandlerInit(RuleA, "get", t, <<>>) : t \in Triggers \cup {<<>>}}

AttrsWithId(id) == <<<<"id", id>>>>

BindInit ==
    /\ attrs \in {<<AttrsWithId(IdBtn1), AttrsWithId(IdC2)>>,
                  <<AttrsWithId(IdMyDiv), <<>>>>}
    /\ events = [e \in Elems |-> <<>>]
    /\ nodes = [e \in Elems |-> LeafNode("div")]
    /\ handler = <<>>
    /\ ctxs = <<>>
    /\ NoCalls
    /\ NoObjs
    /\ NoComps
    /\ last = ListCall("init", 0, 0, <<>>, FALSE)

BindAppend ==
    \E e \in Elems, v \in BindHandlers :
        TotalEvents < MaxBound /\ ListAppend(e, v)

BindInsert ==
    \E e \in Elems, v \in BindHandlers :
        \E i \in 1..(Len(events[e]) + 1) :
            TotalEvents < MaxBound /\ ListInsert(e, i, v)

BindSetItem ==
    \E e \in Elems, v \in BindHandlers :
        \E i \in 1..Len(events[e]) : ListSetItem(e, i, v)

BindExtend ==
    \E e \in Elems, v \in BindHandlers,
       w \in {EventHandlerInit(RuleA, "get", t, <<>>) : t \in {TClick, <<>>}} :
        TotalEvents + 2 <= MaxBound /\ ListExtend(e, <<v, w>>)

BindDelItem ==
    \E e \in Elems : \E i \in 1..Len(events[e]) : ListDelItem(e, i)

BindNext == BindAppend \/ BindInsert \/ BindSetItem \/ BindExtend \/ BindDelItem

SpecBind == BindInit /\ [][BindNext]_vars

\* ------------------------------------------------- binding: object identity
\* The handler objects the caller holds.
CallerObjs == {1, 2}

\* A deepcopy that hands back the object it was given.
DeepCopyAlias(hp, o) == [heap |-> hp, ref |-> o]

\* copy.deepcopy(value): a new object with equal items.
DeepCopy(hp, o) == [heap |-> Append(hp, hp[o]), ref |-> Len(hp) + 1]

\* validate(value) on objects: the copy is made, then event.trigger is
\* assigned on the copy, in place.
ValidateObj(hp, o, d) ==
    LET c == DeepCopy(hp, o)
        r == Validate(c.heap[c.ref], d)
    IN [ok |-> r.ok, ref |-> c.ref, heap |-> [c.heap EXCEPT ![c.ref] = r.event]]

\* What the event lists hold, object by object.
View(hp, rf) == [e \in Elems |-> [i \in 1..Len(rf[e]) |-> hp[rf[e][i]]]]

\* The record of a call: the element and position, the object handed in or
\* assigned to, the objects and lists before the call.
CopyCall(op, e, i, o) ==
    [op |-> op, e |-> e, i |-> i, o |-> o, heap |-> heap, refs |-> refs]

\* element.events.append(o).
ObjAppend(e, o) ==
    LET r == ValidateObj(heap, o, attrs[e])
    IN /\ heap' = r.heap
       /\ refs' = IF r.ok THEN [refs EXCEPT ![e] = Append(@, r.ref)] ELSE refs
       /\ events' = View(heap', refs')
       /\ last' = CopyCall("append", e, Len(refs[e]) + 1, o)
       /\ UNCHANGED <<nodes, attrs, handler, ctxs, callVars, comps, app>>

\* element.events[i] = o.  The handler that was stored there is referenced
\* by nothing any more: its object is gone (an empty slot).
ObjSetItem(e, i, o) ==
    LET r == ValidateObj(heap, o, attrs[e])
    IN /\ heap' = IF r.ok THEN [r.heap EXCEPT ![refs[e][i]] = <<>>] ELSE r.heap
       /\ refs' = IF r.ok THEN [refs EXCEPT ![e][i] = r.ref] ELSE refs
       /\ events' = View(heap', refs')
       /\ last' = CopyCall("setitem", e, i, o)
       /\ UNCHANGED <<nodes, attrs, handler, ctxs, callVars, comps, app>>

\* obj[key] = value on a handler object, in place: one the caller holds, or
\* one read from a list (element.events[i] is the stored object).
ObjAssign(o, key, value) ==
    /\ heap' = [heap EXCEPT ![o] = AttrSetItem(@, key, value)]
    /\ events' = View(heap', refs)
    /\ last' = CopyCall("assign", 0, 0, o)
    /\ UNCHANGED <<nodes, attrs, handler, ctxs, callVars, refs, comps, app>>

CopyInit ==
    /\ attrs = <<AttrsWithId(IdBtn1), AttrsWithId(IdC2)>>
    /\ events = [e \in Elems |-> <<>>]
    /\ nodes = [e \in Elems |-> LeafNode("div")]
    /\ handler = <<>>
    /\ ctxs = <<>>
    /\ NoCalls
    /\ heap = <<EventHandlerInit(RuleA, "get", TClick, <<>>),
               EventHandlerInit(RuleB, "post", TFromWord, TargetOut)>>
    /\ refs = [e \in Elems |-> <<>>]
    /\ NoComps
    /\ last = [op |-> "init", e |-> 0, i |-> 0, o |-> 0, heap |-> <<>>,
               refs |-> [e \in Elems |-> <<>>]]

CopyAppend ==
    \E e \in Elems, o \in CallerObjs :
        Len(heap) < Cardinality(CallerObjs) + MaxBound /\ ObjAppend(e, o)

CopySetItem ==
    \E e \in Elems, o \in CallerObjs :
        \E i \in 1..Len(refs[e]) :
            Len(heap) < Cardinality(CallerObjs) + MaxBound /\ ObjSetItem(e, i, o)

CopyAssignCaller ==
    \E o \in CallerObjs, kv \in {<<"hx-trigger", TFromId>>, <<"hx-target", RuleB>>} :
        ObjAssign(o, kv[1], kv[2])

CopyAssignStored ==
    \E e \in Elems : \E i \in 1..Len(refs[e]) :
        ObjAssign(refs[e][i], "hx-target", RuleA)

CopyNext == CopyAppend \/ CopySetItem \/ CopyAssignCaller \/ CopyAssignStored

SpecCopy == CopyInit /\ [][CopyNext]_vars

\* ------------------------------------------------ trigger rewrite: properties
\* What the statements about a bound trigger speak of, read off the trigger
\* text itself: where "from:" occurs, and the selector token that follows it
\* (up to the next blank or comma).
Delims == {" ", ","}

FromPositions(t) == {p \in 1..Len(t) : p + Len(FromKw) - 1 <= Len(t)
                                        /\ SubSeq(t, p, p + Len(FromKw) - 1) = FromKw}

RECURSIVE TokenEnd(_, _)
TokenEnd(t, i) == IF i <= Len(t) /\ t[i] \notin Delims THEN TokenEnd(t, i + 1) ELSE i - 1

\* The selector written after the "from:" at p (empty when none follows).
SelectorAt(t, p) == SubSeq(t, p + Len(FromKw), TokenEnd(t, p + Len(FromKw)))

\* The from:<selector> clauses of a trigger.
FromClauses(t) == {p \in FromPositions(t) : SelectorAt(t, p) # <<>>}

IsIdSelector(tok) ==
    /\ Len(tok) >= 2
    /\ tok[1] = "#"
    /\ \A j \in 2..Len(tok) : tok[j] \in WordChars \cup {"-"}

IsBareWord(tok) == Len(tok) >= 1 /\ \A j \in 1..Len(tok) : tok[j] \in WordChars

\* A trigger with one from: clause whose selector is a #id or a bare word.
HasExplicitSelector(t) ==
    /\ Cardinality(FromPositions(t)) = 1
    /\ \A p \in FromPositions(t) : IsIdSelector(SelectorAt(t, p)) \/ IsBareWord(SelectorAt(t, p))

\* That trigger with the selector replaced by #id, the rest unchanged.
SelectorReplaced(t, id) ==
    LET p == CHOOSE q \in FromPositions(t) : TRUE
    IN SubSeq(t, 1, p + Len(FromKw) - 1) \o <<"#">> \o id
         \o SubSeq(t, TokenEnd(t, p + Len(FromKw)) + 1, Len(t))

InsertOps == {"append", "insert", "setitem", "extend"}

\* The last call stored every value it was given.
Inserted == last.op \in InsertOps /\ ~last.raised

Trigger(h) == DataGet(h, "hx-trigger")

\* The handler stored for the j-th value of the last call.
Stored(j) == events[last.e][last.i + j - 1]

OwnerId == DataGet(attrs[last.e], "id")

\* C1: a handler whose trigger has a from:<selector> clause (a #id or a bare
\* word), inserted into the event list of the element with id E, is stored
\* with that selector replaced by #E and everything else unchanged.
C1_ExplicitSelectorReplaced ==
    Inserted =>
        \A j \in 1..Len(last.args) :
            (DataHas(last.args[j], "hx-trigger")
               /\ HasExplicitSelector(Trigger(last.args[j])))
            => Trigger(Stored(j)) = SelectorReplaced(Trigger(last.args[j]), OwnerId)

\* The same for selectors made of letters, digits, "_" and "#" only: the
\* part of C1 the pattern [#\w]+ covers.
WordSelectorReplaced ==
    Inserted =>
        \A j \in 1..Len(last.args) :
            (DataHas(last.args[j], "hx-trigger")
               /\ HasExplicitSelector(Trigger(last.args[j]))
               /\ \A p \in FromPositions(Trigger(last.args[j])) :
                    \A c \in 1..Len(SelectorAt(Trigger(last.args[j]), p)) :
                        SelectorAt(Trigger(last.args[j]), p)[c] \in SelChars)
            => Trigger(Stored(j)) = SelectorReplaced(Trigger(last.args[j]), OwnerId)

C11_IdGeneratedIfAbsent ==
    (last.op \in InsertOps
       /\ \A j \in 1..Len(last.args) : DataHas(last.args[j], "hx-trigger"))
    => /\ ~last.raised
       /\ DataHas(attrs[last.e], "id")
       /\ \A j \in 1..Len(last.args) :
             \E p \in FromClauses(Trigger(Stored(j))) :
                 SelectorAt(Trigger(Stored(j)), p) = <<"#">> \o OwnerId

\* The selectors of the from: clauses of a trigger.
FromSelectors(t) == {SelectorAt(t, p) : p \in FromClauses(t)}

\* C13: binding stores an independent copy.  No stored handler is an object
\* the caller holds or is stored twice; a bind leaves every object that
\* the caller holds and every other stored handler as it was (the caller's
\* trigger is not rewritten) and stores the caller's items with the trigger bound to the owner; assigning
\* to a caller's object changes no stored handler, assigning to a stored
\* handler changes no caller's object and no other stored handler; and every
\* stored trigger references the element whose list holds it.
C13_DeepCopyOnBind ==
    /\ \A e \in Elems : \A i \in 1..Len(refs[e]) :
          /\ refs[e][i] \notin CallerObjs
          /\ \A f \in Elems : \A j \in 1..Len(refs[f]) :
                refs[f][j] = refs[e][i] => (f = e /\ j = i)
          /\ DataHas(events[e][i], "hx-trigger")
                => FromSelectors(Trigger(events[e][i])) = {<<"#">> \o DataGet(attrs[e], "id")}
    /\ last.op \in {"append", "setitem"} =>
          /\ \A o \in CallerObjs : heap[o] = last.heap[o]
          /\ \A e \in Elems : \A i \in 1..Len(last.refs[e]) :
                (e # last.e \/ i # last.i) =>
                    /\ refs[e][i] = last.refs[e][i]
                    /\ events[e][i] = last.heap[last.refs[e][i]]
          /\ Len(events[last.e]) >= last.i
          /\ \A k \in {"hx-get", "hx-post", "hx-target"} :
                /\ DataHas(events[last.e][last.i], k) = DataHas(last.heap[last.o], k)
                /\ DataHas(last.heap[last.o], k)
                      => DataGet(events[last.e][last.i], k) = DataGet(last.heap[last.o], k)
    /\ (last.op = "assign" /\ last.o \in CallerObjs) =>
          View(heap, refs) = View(last.heap, last.refs)
    /\ (last.op = "assign" /\ last.o \notin CallerObjs) =>
          /\ \A c \in CallerObjs : heap[c] = last.heap[c]
          /\ \A e \in Elems : \A i \in 1..Len(refs[e]) :
                refs[e][i] # last.o => events[e][i] = last.heap[refs[e][i]]

\* The caller's first handler (the one with hx-get) was put into the lists
\* of both elements and then given another target: the two stored handlers
\* reference btn1 and c_2 and have no target, the caller's trigger has no
\* from: clause.
C13_Witness ==
    /\ last.op = "assign" /\ last.o = 1
    /\ Len(refs[1]) = 1 /\ Len(refs[2]) = 1
    /\ DataHas(events[1][1], "hx-get") /\ DataHas(events[2][1], "hx-get")
    /\ DataHas(heap[1], "hx-target") /\ DataGet(heap[1], "hx-target") = RuleB
    /\ Trigger(heap[1]) = TClick
    /\ Trigger(events[1][1]) = TClick \o <<" ">> \o FromKw \o <<"#">> \o IdBtn1
    /\ Trigger(events[2][1]) = TClick \o <<" ">> \o FromKw \o <<"#">> \o IdC2
    /\ ~DataHas(events[1][1], "hx-target") /\ ~DataHas(events[2][1], "hx-target")

\* ------------------------------------------- AttrsProperty: method and rule
MethodKeys == {MethodKey(m) : m \in Methods}

\* The method keys a handler holds.
PresentMethodKeys(h) == {k \in MethodKeys : DataHas(h, k)}

\* "find current method": the loop over the set AttrsProperty.methods stops
\* at the first key the handler holds and otherwise ends on the last key
\* visited.  The set's iteration order is not fixed, so with several keys
\* held any of them, and with none held any key, can be the outcome.
CurrentMethodKeys(h) ==
    IF PresentMethodKeys(h) # {} THEN PresentMethodKeys(h) ELSE MethodKeys

\* The record of a call on the free-standing handler: the value given, the
\* handler before the call, whether the call raised; ctor is the rule and
\* method it was constructed with, pure tells that since construction only
\* its method was assigned.
HandlerCall(op, value, before, raised, ctor, pure) ==
    [op |-> op, value |-> value, before |-> before, raised |-> raised,
     ctor |-> ctor, pure |-> pure]

\* A method setter that leaves out "del instance[current_method]".
MethodSetDataKeepOld(h, cur, value) ==
    IF ~DataHas(h, cur) THEN h
    ELSE AttrSetItem(h, MethodKey(value), DataGet(h, cur))

\* AttrsProperty.__set__ for "method", with cur the key the loop ended on:
\* read the rule under cur (KeyError when absent), delete it, store it under
\* the new method's key.
MethodSetData(h, cur, value) ==
    IF ~DataHas(h, cur) THEN h
    ELSE AttrSetItem(DataDel(h, cur), MethodKey(value), DataGet(h, cur))

SetMethod(value) ==
    \E cur \in CurrentMethodKeys(handler) :
        /\ handler' = MethodSetData(handler, cur, value)
        /\ last' = HandlerCall("set_method", value, handler, ~DataHas(handler, cur),
                               last.ctor, last.pure)
        /\ UNCHANGED <<objVars, comps, app, elemVars, ctxs, callVars>>

\* A rule setter that takes the plain branch: instance[self.name] = value.
RuleSetDataPlain(h, cur, value) == AttrSetItem(h, "hx-rule", value)

\* AttrsProperty.__set__ for "rule": store the value under the key the loop
\* ended on.
RuleSetData(h, cur, value) == AttrSetItem(h, cur, value)

\* The method keys under which a handler holds a truthy (non-empty) value.
TruthyMethodKeys(h) == {k \in PresentMethodKeys(h) : DataGet(h, k) # <<>>}

\* AttrsProperty.__get__ for "method": the first method of the set whose key
\* holds a truthy value (any of them, the set's order being free); with none
\* the read falls through to instance["hx-method"], a key the handlers here
\* never hold: KeyError.  The set of results the read can have.
MethodGet(h) ==
    IF TruthyMethodKeys(h) # {}
    THEN {[ok |-> TRUE, val |-> m] : m \in {n \in Methods : MethodKey(n) \in TruthyMethodKeys(h)}}
    ELSE {[ok |-> FALSE, val |-> "KeyError"]}

\* AttrsProperty.__get__ for "rule": the first truthy value under a method
\* key, else instance["hx-rule"].
RuleGet(h) ==
    IF TruthyMethodKeys(h) # {}
    THEN {[ok |-> TRUE, val |-> DataGet(h, k)] : k \in TruthyMethodKeys(h)}
    ELSE {[ok |-> AttrGetItem(h, "hx-rule").ok, val |-> AttrGetItem(h, "hx-rule").val]}

SetRule(value) ==
    \E cur \in CurrentMethodKeys(handler) :
        /\ handler' = RuleSetData(handler, cur, value)
        /\ last' = HandlerCall("set_rule", value, handler, FALSE, last.ctor, FALSE)
        /\ UNCHANGED <<objVars, comps, app, elemVars, ctxs, callVars>>

\* EventHandler(rule=..., method=..., trigger=..., target=...).
NewHandler(rule, method, trigger, target) ==
    /\ handler' = EventHandlerInit(rule, method, trigger, target)
    /\ last' = HandlerCall("new", <<>>, handler, FALSE,
                           [rule |-> rule, method |-> method], TRUE)
    /\ UNCHANGED <<objVars, comps, app, elemVars, ctxs, callVars>>

HandlerInit ==
    /\ attrs = [e \in Elems |-> <<>>]
    /\ events = [e \in Elems |-> <<>>]
    /\ nodes = [e \in Elems |-> LeafNode("div")]
    /\ handler = <<>>
    /\ ctxs = <<>>
    /\ NoCalls
    /\ NoObjs
    /\ NoComps
    /\ last = HandlerCall("init", <<>>, <<>>, FALSE, [rule |-> <<>>, method |-> "None"], FALSE)

HandlerNew ==
    \E rule \in {RuleA, RuleB, <<>>}, method \in Methods \cup {"None", "head"},
       trigger \in {TClick, <<>>} :
        NewHandler(rule, method, trigger, TargetOut)

HandlerSetMethod == \E m \in Methods : last.op # "init" /\ SetMethod(m)

HandlerSetRule == \E r \in {RuleA, RuleB, <<>>} : last.op # "init" /\ SetRule(r)

HandlerNext == HandlerNew \/ HandlerSetMethod \/ HandlerSetRule

SpecHandler == HandlerInit /\ [][HandlerNext]_vars

\* C3: a handler constructed with a method of the set and a non-empty rule
\* has, after any sequence of assignments to method, exactly one method-keyed
\* attribute, keyed by the last assigned method and carrying the rule; no
\* key of an earlier method remains.
C3_MethodRuleExclusive ==
    (last.op = "set_method" /\ last.pure
       /\ last.ctor.method \in Methods /\ last.ctor.rule # <<>>)
    => /\ ~last.raised
       /\ PresentMethodKeys(handler) = {MethodKey(last.value)}
       /\ DataGet(handler, MethodKey(last.value)) = last.ctor.rule

\* get then post, then put: only hx-put is left, with the rule given to get.
C3_Witness ==
    /\ last.op = "set_method" /\ last.pure
    /\ last.ctor = [rule |-> RuleA, method |-> "get"]
    /\ last.value = "put"
    /\ PresentMethodKeys(last.before) = {"hx-post"}
    /\ PresentMethodKeys(handler) = {"hx-put"}
    /\ DataGet(handler, "hx-put") = RuleA

C18_HandlerValidated ==
    (last.op = "new" /\ last.ctor.rule # <<>> /\ last.ctor.method \notin Methods) =>
        /\ last.raised
        /\ \A i \in 1..Len(handler) : handler[i][2] # last.ctor.rule

\* ---------------------------------------------------------------- rendering
\* Markup is a sequence of tokens: "open" (<tag), "attr" (key="value"), "gt"
\* (>), "vgt" ( />), "text", "close" (</tag>) and "sp" (the blank that
\* " ".join puts between rendered items).
Tok(k, a, b) == [k |-> k, a |-> a, b |-> b]

\* An escape that leaves every character as it is.
EscapeNone(s) == s

\* html.escape(s, quote=True), character by character.
EscapeChar(c) ==
    CASE c = "&" -> <<"&","a","m","p",";">>
      [] c = "<" -> <<"&","l","t",";">>
      [] c = ">" -> <<"&","g","t",";">>
      [] c = "\"" -> <<"&","q","u","o","t",";">>
      [] c = "'" -> <<"&","#","x","2","7",";">>
      [] OTHER -> <<c>>

Escape(s) == Flatten([i \in 1..Len(s) |-> EscapeChar(s[i])])

\* render(r) of a string: Template(r).render(ctx=ctx).  The strings of the
\* model hold no template syntax and no trailing newline, which jinja2
\* returns as they are.
RenderStr(s) == s

\* " ".join(strings).
RECURSIVE JoinBlank(_)
JoinBlank(ss) ==
    IF ss = <<>> THEN <<>>
    ELSE IF Len(ss) = 1 THEN Head(ss)
    ELSE Head(ss) \o <<" ">> \o JoinBlank(Tail(ss))

\* render(r) of an attribute value: a string, or a list of strings, whose
\* rendered members are joined with a blank.
RenderValue(v) ==
    IF IsList(v) THEN JoinBlank([i \in 1..Len(Names(v)) |-> RenderStr(Names(v)[i])])
    ELSE RenderStr(v)

\* to_string with the class attribute read first, by name.
ItemKeysClassFirst(d) ==
    <<"class">> \o SelectSeq([i \in 1..Len(d) |-> d[i][1]],
                             LAMBDA k : KeyIdentity(k) # "class")

\* The keys self.items() visits: iter(self._data).
ItemKeys(d) == [i \in 1..Len(d) |-> d[i][1]]

\* AttrMultiDict.to_string: for each item of self.items() (every key, read
\* through __getitem__), key="escape(render(value))".  out is the string,
\* data the map after the reads.
RECURSIVE to_string_items(_, _)
to_string_items(d, keys) ==
    IF keys = <<>> THEN [out |-> <<>>, data |-> d]
    ELSE LET g == AttrGetItem(d, Head(keys))
             rest == to_string_items(g.data, Tail(keys))
         IN [out |-> <<Tok("attr", Head(keys), Escape(RenderValue(g.val)))>> \o rest.out,
             data |-> rest.data]

to_string(d) == to_string_items(d, ItemKeys(d))

\* " ".join(items).
RECURSIVE JoinSp(_)
JoinSp(items) ==
    IF items = <<>> THEN <<>>
    ELSE IF Len(items) = 1 THEN Head(items)
    ELSE Head(items) \o <<Tok("sp", "", <<>>)>> \o JoinSp(Tail(items))

\* EventHandler.render: <div {to_string}></div>.
RenderHandler(h) ==
    <<Tok("open", "div", <<>>)>> \o to_string(h).out
        \o <<Tok("gt", "", <<>>), Tok("close", "div", <<>>)>>

\* An element that renders every handler as a marker.
EventsInlineNone(evs) == <<>>

\* The handler rendered inline on the tag: self.events[0].to_string().
EventsInline(evs) == IF evs = <<>> THEN <<>> ELSE to_string(evs[1]).out

\* The handlers rendered as markers: render(self.events[1:]).
EventsOther(evs) ==
    IF evs = <<>> THEN <<>>
    ELSE JoinSp([i \in 1..(Len(evs) - 1) |-> RenderHandler(evs[i + 1])])

\* Element.render and VoidElement.render on the elements as nd, at, ev give
\* them; render(children) joins the rendered children with a blank.
RECURSIVE RenderEl(_, _, _, _)
RenderEl(e, nd, at, ev) ==
    LET children == JoinSp([i \in 1..Len(nd[e].children) |->
                              IF nd[e].children[i].t = "el"
                              THEN RenderEl(nd[e].children[i].v, nd, at, ev)
                              ELSE <<Tok("text", "", RenderStr(nd[e].children[i].v))>>])
        head == <<Tok("open", nd[e].tag, <<>>)>> \o to_string(at[e]).out
                    \o EventsInline(ev[e])
    IN IF nd[e].void
       THEN head \o <<Tok("vgt", "", <<>>)>> \o EventsOther(ev[e])
       ELSE head \o <<Tok("gt", "", <<>>)>> \o children
                \o <<Tok("close", nd[e].tag, <<>>)>> \o EventsOther(ev[e])

\* The elements a render of e serialises: e and its descendants.
RECURSIVE Subtree(_, _)
Subtree(e, nd) ==
    {e} \cup UNION {Subtree(nd[e].children[i].v, nd) :
                      i \in {j \in 1..Len(nd[e].children) : nd[e].children[j].t = "el"}}

\* The record of a render call: the markup returned, the elements before
\* the call, and in prev whether the call before it was a render of the same
\* element, with the markup that one returned.
RenderCall(e, out, before, prev) ==
    [op |-> "render", e |-> e, out |-> out, before |-> before, prev |-> prev,
     i |-> 0, args |-> <<>>, raised |-> FALSE]

\* e.render(): the markup, and every map serialised on the way left as its
\* reads leave it.
Render(e) ==
    /\ attrs' = [x \in Elems |-> IF x \in Subtree(e, nodes)
                                  THEN to_string(attrs[x]).data ELSE attrs[x]]
    /\ events' = [x \in Elems |-> IF x \in Subtree(e, nodes)
                                   THEN [i \in 1..Len(events[x]) |-> to_string(events[x][i]).data]
                                   ELSE events[x]]
    /\ last' = RenderCall(e, RenderEl(e, nodes, attrs', events'),
                          [nodes |-> nodes, attrs |-> attrs, events |-> events],
                          IF last.op = "render" /\ last.e = e
                          THEN [same |-> TRUE, out |-> last.out]
                          ELSE [same |-> FALSE, out |-> <<>>])
    /\ UNCHANGED <<objVars, comps, app, nodes, nonElemVars>>

\* The record of a call on an element's attribute map.
AttrCall(op, e, key) ==
    [op |-> op, e |-> e, i |-> 0, args |-> <<key>>, raised |-> FALSE]

\* element.attrs[key] = value, for keys other than "class".
SetAttr(e, key, value) ==
    /\ attrs' = [attrs EXCEPT ![e] = AttrSetItem(@, key, value)]
    /\ last' = AttrCall("setattr", e, key)
    /\ UNCHANGED <<objVars, comps, app, nodes, events, nonElemVars>>

\* element.attrs[key], the value dropped.
GetAttr(e, key) ==
    /\ attrs' = [attrs EXCEPT ![e] = AttrGetItem(@, key).data]
    /\ last' = [AttrCall("getattr", e, key) EXCEPT !.raised = ~AttrGetItem(attrs[e], key).ok]
    /\ UNCHANGED <<objVars, comps, app, nodes, events, nonElemVars>>

\* ----------------------------------------------------- a rendered tree: Spec
TextHi == <<"h","i">>
TextX == <<"x">>
TitleVal == <<"a","<","b">>

\* Element 1 holds element 2 and a string; element 2 is an element with a
\* string child or a void element.
TreeNodes ==
    {<<Node("ul", FALSE, <<ChildEl(2), ChildStr(TextHi)>>), n2>> :
        n2 \in {Node("li", FALSE, <<ChildStr(TextX)>>), Node("img", TRUE, <<>>)}}

TreeHandlers ==
    {EventHandlerInit(RuleA, "get", TClick, <<>>),
     EventHandlerInit(RuleB, "post", TFromId, TargetOut),
     EventHandlerInit(<<>>, "None", <<>>, TargetOut)}

TreeInit ==
    /\ nodes \in TreeNodes
    /\ attrs = <<AttrsWithId(IdBtn1), AttrsWithId(IdC2)>>
    /\ events = [e \in Elems |-> <<>>]
    /\ handler = <<>>
    /\ ctxs = <<>>
    /\ NoCalls
    /\ NoObjs
    /\ NoComps
    /\ last = ListCall("init", 0, 0, <<>>, FALSE)

TreeAppend ==
    \E e \in Elems, v \in TreeHandlers : TotalEvents < MaxEvents /\ ListAppend(e, v)

TreeDelItem == \E e \in Elems : \E i \in 1..Len(events[e]) : ListDelItem(e, i)

TreeSetAttr == SetAttr(2, "title", TitleVal)

TreeGetAttr == \E key \in {"class", "id"} : GetAttr(2, key)

TreeRender == \E e \in Elems : Render(e)

TreeNext == TreeAppend \/ TreeDelItem \/ TreeSetAttr \/ TreeGetAttr \/ TreeRender

SpecTree == TreeInit /\ [][TreeNext]_vars

\* ------------------------------------------------------ rendering: properties
\* The markup is read back token by token.  The attributes of a map, as the
\* statements expect them on a tag: one key="escaped value" per item.
AttrsOf(d) == [i \in 1..Len(d) |-> Tok("attr", d[i][1], Escape(RenderValue(d[i][2])))]

\* The index that ends the opening tag that starts at 1.
TagEnd(out) == CHOOSE i \in 1..Len(out) :
                   /\ out[i].k \in {"gt", "vgt"}
                   /\ \A j \in 1..(i - 1) : out[j].k \notin {"gt", "vgt"}

\* The index at which the element that starts at i ends: its closing tag,
\* or the end of its tag when it is void.
RECURSIVE MatchEnd(_, _, _)
MatchEnd(out, i, depth) ==
    LET d2 == CASE out[i].k = "open" -> depth + 1
                [] out[i].k \in {"close", "vgt"} -> depth - 1
                [] OTHER -> depth
    IN IF d2 = 0 \/ i >= Len(out) THEN i ELSE MatchEnd(out, i + 1, d2)

\* The elements that follow one another in a piece of markup.
RECURSIVE TopLevel(_)
TopLevel(out) ==
    IF out = <<>> THEN <<>>
    ELSE IF Head(out).k # "open" THEN TopLevel(Tail(out))
    ELSE LET m == MatchEnd(out, 1, 0)
         IN <<SubSeq(out, 1, m)>> \o TopLevel(SubSeq(out, m + 1, Len(out)))

\* What follows the rendered element's own markup.
AfterOwn(out) == TopLevel(SubSeq(out, MatchEnd(out, 1, 0) + 1, Len(out)))

\* A marker element <div attributes></div> carrying exactly these attributes.
IsMarker(chunk, as) ==
    chunk = <<Tok("open", "div", <<>>)>> \o as
               \o <<Tok("gt", "", <<>>), Tok("close", "div", <<>>)>>

\* C4: rendering an element with n >= 1 handlers puts the first handler's
\* attributes on the element's own opening tag, after the element's own, and
\* puts n-1 marker elements after the element's markup, the k-th carrying
\* exactly the attributes of handler k+1; with no handlers the tag carries
\* the element's attributes alone and no marker follows.
C4_FirstInlineRestMarkers ==
    last.op = "render" =>
        LET e == last.e
            n == Len(events[e])
            markers == AfterOwn(last.out)
        IN /\ last.out[1] = Tok("open", nodes[e].tag, <<>>)
           /\ SubSeq(last.out, 2, TagEnd(last.out) - 1)
                 = AttrsOf(attrs[e]) \o (IF n >= 1 THEN AttrsOf(events[e][1]) ELSE <<>>)
           /\ Len(markers) = (IF n >= 1 THEN n - 1 ELSE 0)
           /\ \A k \in 1..Len(markers) : IsMarker(markers[k], AttrsOf(events[e][k + 1]))

\* An element with three different handlers rendered: two markers.
C4_Witness ==
    /\ last.op = "render"
    /\ Len(events[last.e]) = 3
    /\ events[last.e][1] # events[last.e][2]
    /\ events[last.e][2] # events[last.e][3]
    /\ Len(AfterOwn(last.out)) = 2

\* C10: a render leaves tag, children, attributes and handlers of every
\* element as they were, and a render that follows a render of the same
\* element with nothing in between returns the same markup.
C10_RenderIdempotent ==
    last.op = "render" =>
        /\ nodes = last.before.nodes
        /\ attrs = last.before.attrs
        /\ events = last.before.events
        /\ last.prev.same => last.out = last.prev.out

\* The root rendered twice in a row, with handlers on it and on its child.
C10_Witness ==
    /\ last.op = "render" /\ last.e = 1 /\ last.prev.same
    /\ Len(events[1]) >= 2 /\ Len(events[2]) >= 1
    /\ ~DataHas(attrs[1], "class")
    /\ last.out = last.prev.out

\* ------------------------------------------------- the attribute map: Spec
\* Most names a class list holds.
MaxNames == 3

\* value.strip().split(): the maximal runs of non-blank characters.
RECURSIVE SplitWords(_)
SplitWords(s) ==
    IF s = <<>> THEN <<>>
    ELSE IF Head(s) = " " THEN SplitWords(Tail(s))
    ELSE LET rest == SplitWords(Tail(s))
         IN IF Len(s) = 1 \/ s[2] = " " THEN <<<<Head(s)>>>> \o rest
            ELSE <<<<Head(s)>> \o Head(rest)>> \o Tail(rest)

Members(l) == {l[i] : i \in 1..Len(l)}

\* list(set(...)): the members once each, in an order that is not fixed.
ListsOfSet(S) ==
    {l \in [1..Cardinality(S) -> S] : \A i, j \in 1..Cardinality(S) : l[i] = l[j] => i = j}

\* A _validate_class that keeps the string as it is.
ValidateClassKeep(value) == {value}

\* AttrMultiDict._validate_class: a string becomes the list of its distinct
\* names, another iterable the list of its members.  The lists it can give.
ValidateClass(value) ==
    IF IsList(value) THEN {value}
    ELSE {ListValue(l) : l \in ListsOfSet(Members(SplitWords(value)))}

\* AttrMultiDict.__setitem__: the value is normalised when the key is
\* "class" (this spelling).  The maps it can give.
AttrSetItemResults(d, key, value) ==
    IF key = "class" THEN {DataSet(d, key, l) : l \in ValidateClass(value)}
    ELSE {DataSet(d, key, value)}

\* The record of a call on the map under test (that of element 1): the key
\* and value given, whether it raised, the value a read returned, the map
\* before the call, the output of a to_string; fromStr tells that class was
\* last set from a string under the key "class" and only appended to since,
\* supplied holds the names given since then, and fresh tells that no name
\* was appended that the list already held.
MapCall(op, key, value, raised, val, out, fromStr, supplied, fresh) ==
    [op |-> op, key |-> key, value |-> value, raised |-> raised, val |-> val,
     before |-> attrs[1], out |-> out, fromStr |-> fromStr,
     supplied |-> supplied, fresh |-> fresh]

\* attrs[key] = value.
MapSet(key, value) ==
    \E d2 \in AttrSetItemResults(attrs[1], key, value) :
        /\ attrs' = [attrs EXCEPT ![1] = d2]
        /\ last' = IF KeyIdentity(key) # "class"
                   THEN MapCall("set", key, value, FALSE, <<>>, <<>>,
                                last.fromStr, last.supplied, last.fresh)
                   ELSE IF key = "class" /\ ~IsList(value)
                   THEN MapCall("set", key, value, FALSE, <<>>, <<>>,
                                TRUE, Members(SplitWords(value)), TRUE)
                   ELSE MapCall("set", key, value, FALSE, <<>>, <<>>, FALSE, {}, TRUE)
        /\ UNCHANGED <<objVars, comps, app, nodes, events, nonElemVars>>

\* attrs[key].
MapGet(key) ==
    LET g == AttrGetItem(attrs[1], key)
    IN /\ attrs' = [attrs EXCEPT ![1] = g.data]
       /\ last' = MapCall("get", key, <<>>, ~g.ok, g.val, <<>>,
                          last.fromStr, last.supplied, last.fresh)
       /\ UNCHANGED <<objVars, comps, app, nodes, events, nonElemVars>>

\* del attrs[key]: KeyError when no item has that identity.
MapDel(key) ==
    /\ attrs' = [attrs EXCEPT ![1] = IF DataHas(@, key) THEN DataDel(@, key) ELSE @]
    /\ last' = IF KeyIdentity(key) = "class" /\ DataHas(attrs[1], key)
               THEN MapCall("del", key, <<>>, FALSE, <<>>, <<>>, FALSE, {}, TRUE)
               ELSE MapCall("del", key, <<>>, ~DataHas(attrs[1], key), <<>>, <<>>,
                            last.fromStr, last.supplied, last.fresh)
    /\ UNCHANGED <<objVars, comps, app, nodes, events, nonElemVars>>

\* attrs["class"].append(name): the list that the read returns is the stored
\* one and is extended in place; a stored string has no append
\* (AttributeError).
MapAppend(name) ==
    LET g == AttrGetItem(attrs[1], "class")
        i == DataIndex(g.data, "class")
    IN /\ attrs' = [attrs EXCEPT ![1] =
                      IF IsList(g.val) THEN [g.data EXCEPT ![i][2] = Append(@, name)]
                      ELSE g.data]
       /\ last' = MapCall("append", "class", name, ~IsList(g.val), g.val, <<>>,
                          last.fromStr, last.supplied \cup {name},
                          last.fresh /\ IsList(g.val) /\ name \notin Members(Names(g.val)))
       /\ UNCHANGED <<objVars, comps, app, nodes, events, nonElemVars>>

\* attrs.to_string().
MapToString ==
    LET r == to_string(attrs[1])
    IN /\ attrs' = [attrs EXCEPT ![1] = r.data]
       /\ last' = MapCall("to_string", "", <<>>, FALSE, <<>>, r.out,
                          last.fromStr, last.supplied, last.fresh)
       /\ UNCHANGED <<objVars, comps, app, nodes, events, nonElemVars>>

NameA == <<"a">>
NameB == <<"b">>
NameP == <<"p">>
StrBP == NameB \o <<" ">> \o NameP
StrBB == <<" ">> \o NameB \o <<" ", " ">> \o NameB

MapKeys == {"class", "CLASS", "id", "ID"}

MapValues == {StrBP, StrBB, NameA, ListValue(<<NameP, NameA>>)}

MapInit ==
    /\ attrs \in {<<<<>>, <<>>>>, <<AttrsWithId(IdBtn1), <<>>>>}
    /\ events = [e \in Elems |-> <<>>]
    /\ nodes = [e \in Elems |-> LeafNode("div")]
    /\ handler = <<>>
    /\ ctxs = <<>>
    /\ NoCalls
    /\ NoObjs
    /\ NoComps
    /\ last = [op |-> "init", key |-> "", value |-> <<>>, raised |-> FALSE,
               val |-> <<>>, before |-> <<>>, out |-> <<>>, fromStr |-> FALSE,
               supplied |-> {}, fresh |-> TRUE]

MapSetItem == \E key \in MapKeys, value \in MapValues : MapSet(key, value)

MapGetItem == \E key \in MapKeys : MapGet(key)

MapDelItem == \E key \in MapKeys : MapDel(key)

MapAppendClass ==
    \E name \in {NameA, NameB} :
        /\ DataHas(attrs[1], "class") /\ IsList(DataGet(attrs[1], "class"))
              => Len(Names(DataGet(attrs[1], "class"))) < MaxNames
        /\ MapAppend(name)

MapNext == MapSetItem \/ MapGetItem \/ MapDelItem \/ MapAppendClass \/ MapToString

SpecAttr == MapInit /\ [][MapNext]_vars

\* ------------------------------------------------ the attribute map: properties
\* The spellings of a key.
Spellings(key) == {k \in MapKeys : KeyIdentity(k) = KeyIdentity(key)}

\* What a read through key returns now.
ReadOf(key) == AttrGetItem(attrs[1], key)

\* C14: keys that differ only in letter case are one key: the map holds one
\* item for them, a value set through one spelling is read through every
\* spelling, a delete through one removes the item for all; and this holds
\* for class with its special handling: whichever spelling is used, a string
\* is stored as the list of its names and a read returns a list.
C14_CaseInsensitiveKeys ==
    /\ \A i, j \in 1..Len(attrs[1]) :
          KeyIdentity(attrs[1][i][1]) = KeyIdentity(attrs[1][j][1]) => i = j
    /\ last.op = "set" =>
          \A k \in Spellings(last.key) :
              /\ ReadOf(k).ok
              /\ IF KeyIdentity(last.key) = "class"
                 THEN /\ IsList(ReadOf(k).val)
                      /\ ~IsList(last.value) =>
                            Members(Names(ReadOf(k).val)) = Members(SplitWords(last.value))
                 ELSE ReadOf(k).val = last.value
    /\ (last.op = "del" /\ ~last.raised) =>
          \A k \in Spellings(last.key) : ~DataHas(attrs[1], k)
    /\ (last.op = "get" /\ KeyIdentity(last.key) = "class") =>
          ~last.raised /\ IsList(last.val)

\* The same with the special handling of class stated for the spelling
\* "class" only: under another spelling a class value is stored as it was
\* given (and then read so under every spelling), and an absent class is a
\* KeyError.
KeysCaseInsensitive ==
    /\ \A i, j \in 1..Len(attrs[1]) :
          KeyIdentity(attrs[1][i][1]) = KeyIdentity(attrs[1][j][1]) => i = j
    /\ last.op = "set" =>
          \A k \in Spellings(last.key) :
              /\ ReadOf(k).ok
              /\ IF last.key = "class"
                 THEN /\ IsList(ReadOf(k).val)
                      /\ ~IsList(last.value) =>
                            Members(Names(ReadOf(k).val)) = Members(SplitWords(last.value))
                 ELSE ReadOf(k).val = last.value
    /\ (last.op = "del" /\ ~last.raised) =>
          \A k \in Spellings(last.key) : ~DataHas(attrs[1], k)
    /\ (last.op = "get" /\ last.key # "class") =>
          /\ last.raised = ~DataHas(last.before, last.key)
          /\ ~last.raised => last.val = DataGet(last.before, last.key)

\* The names of the class attribute in the output of the last to_string:
\* the words of each class="..." it holds.
RenderedClasses ==
    [i \in {j \in 1..Len(last.out) : last.out[j].k = "attr"
                                      /\ KeyIdentity(last.out[j].a) = "class"}
       |-> SplitWords(last.out[i].b)]

MaxLen == 3

EscChars == {"a", ";", "<", ">", "&", "\"", "'"}

\* The attribute values: every string of up to MaxLen of these characters,
\* and two that spell an entity themselves.
EscValues ==
    UNION {[1..n -> EscChars] : n \in 0..MaxLen}
      \cup {<<"&","l","t",";">>, <<"&","a","m","p",";","<">>}

\* A map is given its title once.
EscSetItem ==
    \E value \in EscValues : ~DataHas(attrs[1], "title") /\ MapSet("title", value)

EscNext == EscSetItem \/ MapToString

SpecEscape == MapInit /\ [][EscNext]_vars

\* HTML-decoding of the five entities html.escape writes.
Entities ==
    {<<"&","a","m","p",";">>, <<"&","l","t",";">>, <<"&","g","t",";">>,
     <<"&","q","u","o","t",";">>, <<"&","#","x","2","7",";">>}

EntityAt(s, i) == {en \in Entities : i + Len(en) - 1 <= Len(s)
                                     /\ SubSeq(s, i, i + Len(en) - 1) = en}

EntityChar(en) ==
    CASE en = <<"&","a","m","p",";">> -> "&"
      [] en = <<"&","l","t",";">> -> "<"
      [] en = <<"&","g","t",";">> -> ">"
      [] en = <<"&","q","u","o","t",";">> -> "\""
      [] OTHER -> "'"

RECURSIVE Unescape(_, _)
Unescape(s, i) ==
    IF i > Len(s) THEN <<>>
    ELSE IF EntityAt(s, i) # {}
    THEN LET en == CHOOSE x \in EntityAt(s, i) : TRUE
         IN <<EntityChar(en)>> \o Unescape(s, i + Len(en))
    ELSE <<s[i]>> \o Unescape(s, i + 1)

OtherValue(type) == <<"OBJ", type>>

IsOther(v) == Len(v) >= 1 /\ v[1] = "OBJ"

TypeName(v) == v[2]

ChildNone == [t |-> "none", v |-> <<>>]

ChildOther(type) == [t |-> "obj", v |-> OtherValue(type)]

\* An error: the exception's class, the attribute key its message names,
\* the class of the underlying exception it names and the type name it
\* names ("" where it names none).  <<>> is no error.
Error(exc, key, cause, type) == <<exc, key, cause, type>>

\* A render that rejects the value itself, with a TypeError.
RenderOtherTypeError(v) == Error("TypeError", "", "", TypeName(v))

\* render(r) for such a value: no branch takes it, and r.render(...) is
\* looked up on it: AttributeError, "'int' object has no attribute 'render'".
RenderOther(v) == Error("AttributeError", "", "", TypeName(v))

\* The first of a sequence of errors that is one.
RECURSIVE FirstError(_)
FirstError(errs) ==
    IF errs = <<>> THEN <<>>
    ELSE IF Head(errs) # <<>> THEN Head(errs) ELSE FirstError(Tail(errs))

\* A to_string that leaves out the items it cannot render.
ToStringErrorNone(d) == <<>>

\* AttrMultiDict.to_string: the first item whose render(v) raises ends it
\* with ValueError("unable to render value ... for attribute '<k>' due to
\* <class of e>(<e>)").
ToStringError(d) ==
    FirstError([i \in 1..Len(d) |->
                  IF IsOther(d[i][2])
                  THEN Error("ValueError", d[i][1], RenderOther(d[i][2])[1],
                             RenderOther(d[i][2])[4])
                  ELSE <<>>])

\* Element.render: render(self.children), then self.attrs.to_string(), then
\* the handlers; the error the first failing step raises.
RECURSIVE RenderError(_, _, _, _)
RenderError(e, nd, at, ev) ==
    FirstError(
        [i \in 1..Len(nd[e].children) |->
            CASE nd[e].children[i].t = "el" -> RenderError(nd[e].children[i].v, nd, at, ev)
              [] nd[e].children[i].t = "obj" -> RenderOther(nd[e].children[i].v)
              [] OTHER -> <<>>]
        \o <<ToStringError(at[e])>>
        \o [i \in 1..Len(ev[e]) |-> ToStringError(ev[e][i])])

\* The record of a call that can fail: the error (<<>>: none) and what was
\* returned.
FailCall(op, e, err, out) ==
    [op |-> op, e |-> e, err |-> err, out |-> out, i |-> 0, args |-> <<>>,
     raised |-> err # <<>>]

\* e.render().
FailRender(e) ==
    LET err == RenderError(e, nodes, attrs, events)
    IN /\ last' = FailCall("render", e, err,
                           IF err = <<>> THEN RenderEl(e, nodes, attrs, events) ELSE <<>>)
       /\ UNCHANGED <<objVars, comps, app, elemVars, nonElemVars>>

\* e.attrs.to_string().
FailToString(e) ==
    LET err == ToStringError(attrs[e])
    IN /\ last' = FailCall("to_string", e, err,
                           IF err = <<>> THEN to_string(attrs[e]).out ELSE <<>>)
       /\ UNCHANGED <<objVars, comps, app, elemVars, nonElemVars>>

\* Element 1 holds up to two children, element 2 among them at most once;
\* element 2 holds nothing or an integer.
FailKid(k) ==
    CASE k = 1 -> ChildEl(2)
      [] k = 2 -> ChildStr(TextHi)
      [] k = 3 -> ChildNone
      [] k = 4 -> ChildOther("int")
      [] OTHER -> ChildOther("float")

FailKidLists ==
    {c \in UNION {[1..n -> 1..5] : n \in 0..2} :
        Cardinality({i \in 1..Len(c) : c[i] = 1}) <= 1}

FailInit ==
    /\ \E c1 \in FailKidLists, c2 \in {<<>>, <<4>>} :
          nodes = <<Node("ul", FALSE, [i \in 1..Len(c1) |-> FailKid(c1[i])]),
                    Node("li", FALSE, [i \in 1..Len(c2) |-> FailKid(c2[i])])>>
    /\ attrs = <<AttrsWithId(IdBtn1), <<>>>>
    /\ events = [e \in Elems |-> <<>>]
    /\ handler = <<>>
    /\ ctxs = <<>>
    /\ NoCalls
    /\ NoObjs
    /\ NoComps
    /\ last = FailCall("init", 0, <<>>, <<>>)

FailSetAttr ==
    \E key \in {"title", "id"}, value \in {TextX, OtherValue("int"), OtherValue("float")} :
        SetAttr(2, key, value)

FailRenderEl == \E e \in Elems : FailRender(e)

FailSerialize == \E e \in Elems : FailToString(e)

FailNext == FailSetAttr \/ FailRenderEl \/ FailSerialize

SpecFail == FailInit /\ [][FailNext]_vars

\* ------------------------------------------------- failing renders: properties
\* The type names of the unsupported children in the subtree of e.
OtherKids(e) ==
    UNION {{TypeName(nodes[x].children[i].v) :
               i \in {j \in 1..Len(nodes[x].children) : nodes[x].children[j].t = "obj"}} :
           x \in Subtree(e, nodes)}

\* The keys, in the maps of the subtree of e, of values that cannot be
\* rendered.
BadKeys(e) ==
    UNION {{attrs[x][i][1] : i \in {j \in 1..Len(attrs[x]) : IsOther(attrs[x][j][2])}} :
           x \in Subtree(e, nodes)}

\* C17: rendering an element that has a child that is not None, a
\* component, a string or an iterable fails and returns no markup, and when
\* it is the child that fails the error is a TypeError that names the
\* child's type.
C17_UnsupportedTypeError ==
    (last.op = "render" /\ OtherKids(last.e) # {}) =>
        /\ last.raised
        /\ last.out = <<>>
        /\ last.err[2] = "" => (last.err[1] = "TypeError" /\ last.err[4] \in OtherKids(last.e))

\* The same with the error the code raises: an AttributeError that names
\* the child's type.
UnsupportedRaises ==
    (last.op = "render" /\ OtherKids(last.e) # {}) =>
        /\ last.raised
        /\ last.out = <<>>
        /\ last.err[2] = "" => (last.err[1] = "AttributeError" /\ last.err[4] \in OtherKids(last.e))

\* C19: serialising a map that holds a value that cannot be rendered, on its
\* own or in the render of an element, raises and returns nothing; the
\* error of the map is one ValueError that names the key of such a value
\* and the underlying failure.
C19_ResolutionError ==
    /\ (last.op = "to_string"
          /\ \E i \in 1..Len(attrs[last.e]) : IsOther(attrs[last.e][i][2])) =>
          /\ last.raised
          /\ last.out = <<>>
          /\ last.err[1] = "ValueError"
          /\ \E i \in 1..Len(attrs[last.e]) :
                /\ IsOther(attrs[last.e][i][2])
                /\ last.err[2] = attrs[last.e][i][1]
                /\ last.err[4] = TypeName(attrs[last.e][i][2])
          /\ last.err[3] # ""
    /\ (last.op = "render" /\ BadKeys(last.e) # {}) =>
          /\ last.raised
          /\ last.out = <<>>
          /\ last.err[2] # "" =>
                (last.err[1] = "ValueError" /\ last.err[2] \in BadKeys(last.e)
                   /\ last.err[3] # "")
          /\ OtherKids(last.e) = {} => last.err[2] # ""

\* Element 1 is rendered; its child element 2 has title = 5: the render
\* raises the ValueError of that map.
C19_Witness ==
    /\ last.op = "render" /\ last.e = 1
    /\ 2 \in Subtree(1, nodes)
    /\ OtherKids(1) = {}
    /\ DataHas(attrs[2], "title") /\ DataGet(attrs[2], "title") = OtherValue("int")
    /\ last.err = Error("ValueError", "title", "AttributeError", "int")
    /\ last.out = <<>>

\* -------------------------------------------------------------- ContextDict
\* A context is [data, parent, component, owner]: data its local entries (a
\* function from the keys it holds), parent the index of its parent context
\* in ctxs (0: None), component the component that pushed it (0: None),
\* owner the thread whose render call created it (0: built by hand).
ContextDict(data, parent, component, owner) ==
    [data |-> data, parent |-> parent, component |-> component, owner |-> owner]

NoData == [k \in {} |-> 0]

DictSet(d, k, v) == [x \in DOMAIN d \cup {k} |-> IF x = k THEN v ELSE d[x]]

DictDel(d, k) == [x \in DOMAIN d \ {k} |-> d[x]]

\* ContextDict.__iter__: the local keys, and the parent's when the parent is
\* truthy; a context is truthy when its __len__, the number of these keys,
\* is not 0.
RECURSIVE CtxKeys(_, _)
CtxKeys(cs, c) ==
    DOMAIN cs[c].data
      \cup (IF cs[c].parent # 0 /\ CtxKeys(cs, cs[c].parent) # {}
            THEN CtxKeys(cs, cs[c].parent) ELSE {})

Truthy(cs, c) == Cardinality(CtxKeys(cs, c)) # 0

\* A lookup that asks the parent's local entries only.
GetItemOneLevel(cs, c, key) ==
    IF key \in DOMAIN cs[c].data THEN [ok |-> TRUE, val |-> cs[c].data[key]]
    ELSE IF cs[c].parent # 0 /\ key \in DOMAIN cs[cs[c].parent].data
         THEN [ok |-> TRUE, val |-> cs[cs[c].parent].data[key]]
         ELSE [ok |-> FALSE, val |-> 0]

\* ContextDict.__getitem__: the local entry, else the parent's answer when
\* there is a parent, else KeyError (ok = FALSE).
RECURSIVE GetItem(_, _, _)
GetItem(cs, c, key) ==
    IF key \in DOMAIN cs[c].data THEN [ok |-> TRUE, val |-> cs[c].data[key]]
    ELSE IF cs[c].parent # 0 THEN GetItem(cs, cs[c].parent, key)
         ELSE [ok |-> FALSE, val |-> 0]

\* A delete that never asks the parent.
DelItemLocalOnly(cs, c, key) ==
    IF key \in DOMAIN cs[c].data
    THEN [cs |-> [cs EXCEPT ![c].data = DictDel(@, key)], raised |-> FALSE]
    ELSE [cs |-> cs, raised |-> TRUE]

\* ContextDict.__delitem__: delete the local entry; on KeyError delete from
\* the parent when the parent is truthy, and re-raise the KeyError.
RECURSIVE DelItem(_, _, _)
DelItem(cs, c, key) ==
    IF key \in DOMAIN cs[c].data
    THEN [cs |-> [cs EXCEPT ![c].data = DictDel(@, key)], raised |-> FALSE]
    ELSE IF cs[c].parent # 0 /\ Truthy(cs, cs[c].parent)
         THEN [cs |-> DelItem(cs, cs[c].parent, key).cs, raised |-> TRUE]
         ELSE [cs |-> cs, raised |-> TRUE]

\* The record of a call on a context: context, key, the value returned,
\* whether it raised, the contexts before the call.
CtxCall(op, c, key, ret, raised, before) ==
    [op |-> op, c |-> c, key |-> key, ret |-> ret, raised |-> raised, before |-> before]

\* ctx[key] = value (UserDict.__setitem__: the local entry).
CtxSetItem(c, key, value) ==
    /\ ctxs' = [ctxs EXCEPT ![c].data = DictSet(@, key, value)]
    /\ last' = CtxCall("setitem", c, key, 0, FALSE, <<>>)
    /\ UNCHANGED <<objVars, comps, app, elemVars, handler, callVars>>

\* ctx[key].
CtxGetItem(c, key) ==
    /\ last' = CtxCall("getitem", c, key, GetItem(ctxs, c, key).val,
                       ~GetItem(ctxs, c, key).ok, <<>>)
    /\ UNCHANGED <<objVars, comps, app, elemVars, handler, ctxs, callVars>>

\* del ctx[key].
CtxDelItem(c, key) ==
    /\ ctxs' = DelItem(ctxs, c, key).cs
    /\ last' = CtxCall("delitem", c, key, 0, DelItem(ctxs, c, key).raised, ctxs)
    /\ UNCHANGED <<objVars, comps, app, elemVars, handler, callVars>>

\* key in ctx (UserDict.__contains__: key in self.data).
Contains(cs, c, key) == key \in DOMAIN cs[c].data

\* The builds differ in ctx.get: Mapping.get tries ctx[key], the get that
\* UserDict defines since Python 3.12 asks key in ctx first.
GetVariants == {"Mapping", "UserDict"}

\* ctx.get(key): the value, or None (0).
Get(cs, c, key, variant) ==
    IF variant = "UserDict" /\ ~Contains(cs, c, key) THEN 0
    ELSE IF GetItem(cs, c, key).ok THEN GetItem(cs, c, key).val ELSE 0

\* ListView.__iter__ from obj: step to the parent and yield it, as long as
\* the object stepped from is not None (0 stands for None).
RECURSIVE ListViewIter(_, _)
ListViewIter(cs, obj) ==
    IF obj = 0 THEN <<>>
    ELSE <<cs[obj].parent>> \o ListViewIter(cs, cs[obj].parent)

\* ListView.__len__: counts the object and every parent after it.
RECURSIVE ListViewLen(_, _)
ListViewLen(cs, obj) == IF obj = 0 THEN 0 ELSE 1 + ListViewLen(cs, cs[obj].parent)

\* ListView.__getitem__: index steps from the object; IndexError when a step
\* starts at None.
RECURSIVE ListViewGetItem(_, _, _)
ListViewGetItem(cs, obj, index) ==
    IF index <= 0 THEN [ok |-> TRUE, val |-> obj]
    ELSE IF obj = 0 THEN [ok |-> FALSE, val |-> 0]
    ELSE ListViewGetItem(cs, cs[obj].parent, index - 1)

\* list(ctx): the keys it yields, each once (it iterates a set).
CtxIterate(c) ==
    /\ last' = CtxCall("iter", c, "", CtxKeys(ctxs, c), FALSE, <<>>)
    /\ UNCHANGED <<objVars, comps, app, elemVars, handler, ctxs, callVars>>

\* len(ctx).
CtxLength(c) ==
    /\ last' = CtxCall("len", c, "", Cardinality(CtxKeys(ctxs, c)), FALSE, <<>>)
    /\ UNCHANGED <<objVars, comps, app, elemVars, handler, ctxs, callVars>>

\* key in ctx.
CtxContains(c, key) ==
    /\ last' = CtxCall("contains", c, key, Contains(ctxs, c, key), FALSE, <<>>)
    /\ UNCHANGED <<objVars, comps, app, elemVars, handler, ctxs, callVars>>

\* ctx.get(key).
CtxGetDefault(c, key, variant) ==
    /\ last' = CtxCall("get", c, key, Get(ctxs, c, key, variant), FALSE, <<>>)
    /\ UNCHANGED <<objVars, comps, app, elemVars, handler, ctxs, callVars>>

\* list(ctx.parents).
CtxParentsIter(c) ==
    /\ last' = CtxCall("parents_iter", c, "", ListViewIter(ctxs, c), FALSE, <<>>)
    /\ UNCHANGED <<objVars, comps, app, elemVars, handler, ctxs, callVars>>

\* len(ctx.parents).
CtxParentsLen(c) ==
    /\ last' = CtxCall("parents_len", c, "", ListViewLen(ctxs, c), FALSE, <<>>)
    /\ UNCHANGED <<objVars, comps, app, elemVars, handler, ctxs, callVars>>

\* ctx.parents[index].
CtxParentsGetItem(c, index) ==
    /\ last' = CtxCall("parents_getitem", c, "",
                       [index |-> index, obj |-> ListViewGetItem(ctxs, c, index).val],
                       ~ListViewGetItem(ctxs, c, index).ok, <<>>)
    /\ UNCHANGED <<objVars, comps, app, elemVars, handler, ctxs, callVars>>

\* --------------------------------------------------------- contexts: Spec
CtxKeySet == {"x", "y"}

CtxValues(key) == IF key = "x" THEN {1, 2} ELSE {1}

\* A chain built by hand: context c has parent c - 1, context 1 has none.
CtxInit ==
    /\ nodes = [e \in Elems |-> LeafNode("div")]
    /\ attrs = [e \in Elems |-> <<>>]
    /\ events = [e \in Elems |-> <<>>]
    /\ handler = <<>>
    /\ ctxs = [c \in 1..MaxChain |-> ContextDict(NoData, c - 1, 0, 0)]
    /\ NoCalls
    /\ NoObjs
    /\ NoComps
    /\ last = CtxCall("init", 0, "", 0, FALSE, <<>>)

CtxSet == \E c \in 1..MaxChain, key \in CtxKeySet : \E v \in CtxValues(key) : CtxSetItem(c, key, v)

CtxGet == \E c \in 1..MaxChain, key \in CtxKeySet : CtxGetItem(c, key)

CtxDel == \E c \in 1..MaxChain, key \in CtxKeySet : CtxDelItem(c, key)

CtxKeyViews ==
    \E c \in 1..MaxChain :
        \/ CtxIterate(c)
        \/ CtxLength(c)
        \/ \E key \in CtxKeySet : CtxContains(c, key)
        \/ \E key \in CtxKeySet, variant \in GetVariants : CtxGetDefault(c, key, variant)

CtxParents ==
    \E c \in 1..MaxChain :
        \/ CtxParentsIter(c)
        \/ CtxParentsLen(c)
        \/ \E index \in 0..(MaxChain + 1) : CtxParentsGetItem(c, index)

CtxNext == CtxSet \/ CtxGet \/ CtxDel

SpecCtx == CtxInit /\ [][CtxNext]_vars

\* Contexts that are written and then looked at through their views.
ViewsNext == CtxSet \/ CtxKeyViews \/ CtxParents

SpecViews == CtxInit /\ [][ViewsNext]_vars

\* The chain of a context: itself, its parent, ... up to the root.
RECURSIVE ChainOf(_, _)
ChainOf(cs, c) == IF c = 0 THEN <<>> ELSE <<c>> \o ChainOf(cs, cs[c].parent)

\* The positions of the chain whose context holds the key locally.
Holders(cs, c, key) ==
    {i \in 1..Len(ChainOf(cs, c)) : key \in DOMAIN cs[ChainOf(cs, c)[i]].data}

\* The nearest context of the chain that holds the key.
Nearest(cs, c, key) ==
    ChainOf(cs, c)[CHOOSE i \in Holders(cs, c, key) : \A j \in Holders(cs, c, key) : i <= j]

\* C5: ctx[k] returns the value held by the nearest context of the chain
\* that holds k, and raises exactly when no context of the chain holds k.
C5_LookupNearest ==
    last.op = "getitem" =>
        /\ last.raised <=> Holders(ctxs, last.c, last.key) = {}
        /\ ~last.raised => last.ret = ctxs[Nearest(ctxs, last.c, last.key)].data[last.key]

\* x looked up from the innermost context: absent there and in its parent,
\* held by the root.
C5_Witness ==
    /\ last.op = "getitem" /\ last.c = MaxChain /\ last.key = "x"
    /\ Holders(ctxs, last.c, last.key) = {MaxChain}
    /\ ~last.raised /\ last.ret = ctxs[1].data["x"]

\* C6: del ctx[k] removes k from the nearest context of the chain that holds
\* it (the context itself when it holds k) and changes no other entry of
\* any context.
C6_DeleteNearest ==
    (last.op = "delitem" /\ Holders(last.before, last.c, last.key) # {}) =>
        LET n == Nearest(last.before, last.c, last.key)
        IN ctxs = [last.before EXCEPT ![n].data = DictDel(@, last.key)]

\* x deleted through the innermost context, which does not hold it, while
\* its parent and the root do: the parent's entry goes, the root's stays.
C6_Witness ==
    /\ last.op = "delitem" /\ last.c = MaxChain /\ last.key = "x"
    /\ Holders(last.before, last.c, "x") = {2, MaxChain}
    /\ "x" \notin DOMAIN ctxs[MaxChain - 1].data
    /\ "x" \in DOMAIN ctxs[1].data

\* C26: del ctx[k] raises KeyError only if no context of the chain holds k;
\* when the context or one of its ancestors holds k, the delete completes
\* without raising.
C26_DeleteRaisesIfAbsent ==
    last.op = "delitem" =>
        (last.raised <=> Holders(last.before, last.c, last.key) = {})

\* What the delete does: it raises exactly when the context itself does not
\* hold k, whether or not an ancestor's entry was deleted on the way.
DeleteRaisesUnlessLocal ==
    last.op = "delitem" =>
        (last.raised <=> last.key \notin DOMAIN last.before[last.c].data)

\* C27: a key is yielded by iterating the context, counted in its length,
\* reported by `k in ctx` and returned by get if and only if ctx[k] succeeds.
C27_KeyViewsAgree ==
    LET held(key) == GetItem(ctxs, last.c, key).ok
    IN  /\ last.op = "iter" => last.ret = {key \in CtxKeySet : held(key)}
        /\ last.op = "len" => last.ret = Cardinality({key \in CtxKeySet : held(key)})
        /\ last.op = "contains" => (last.ret <=> held(last.key))
        /\ last.op = "get" =>
               IF held(last.key) THEN last.ret = GetItem(ctxs, last.c, last.key).val
               ELSE last.ret = 0

\* What the views do: iteration and length go by the chain, the membership
\* test by the local entries alone.
IterLenByChain ==
    LET held(key) == GetItem(ctxs, last.c, key).ok
    IN  /\ last.op = "iter" => last.ret = {key \in CtxKeySet : held(key)}
        /\ last.op = "len" => last.ret = Cardinality({key \in CtxKeySet : held(key)})
        /\ last.op = "contains" => (last.ret <=> last.key \in DOMAIN ctxs[last.c].data)

\* The ancestors of a context, nearest first.
Ancestors(cs, c) == Tail(ChainOf(cs, c))

\* C28: the parents view of a context with n ancestors has length n, yields
\* the parent, the grandparent, ... up to the root and nothing else, and
\* parents[i] for i in 0..n-1 is the i-th item of the iteration.
C28_ParentsView ==
    LET anc == Ancestors(ctxs, last.c)
    IN  /\ last.op = "parents_iter" => last.ret = anc
        /\ last.op = "parents_len" => last.ret = Len(anc)
        /\ (last.op = "parents_getitem" /\ last.ret.index < Len(anc)) =>
               ~last.raised /\ last.ret.obj = anc[last.ret.index + 1]

\* What the view does: the iteration ends with None after the ancestors, the
\* length counts the context itself, and parents[i] is the context for i = 0
\* and the i-th ancestor after it.
ParentsViewShifted ==
    LET chain == ChainOf(ctxs, last.c)
    IN  /\ last.op = "parents_iter" => last.ret = Tail(chain) \o <<0>>
        /\ last.op = "parents_len" => last.ret = Len(chain)
        /\ (last.op = "parents_getitem" /\ last.ret.index < Len(chain)) =>
               ~last.raised /\ last.ret.obj = chain[last.ret.index + 1]
        /\ (last.op = "parents_getitem" /\ last.ret.index = Len(chain)) =>
               ~last.raised /\ last.ret.obj = 0
        /\ (last.op = "parents_getitem" /\ last.ret.index > Len(chain)) => last.raised

\* ------------------------------------------------- render calls and contexts
\* The components rendered: two disjoint trees, one per thread.  Component 1
\* holds 2 and 3, component 4 holds 5.
Comps == 1..5

CompChildren(c) ==
    CASE c = 1 -> <<2, 3>>
      [] c = 4 -> <<5>>
      [] OTHER -> <<>>

CompParent(c) ==
    CASE c \in {2, 3} -> 1
      [] c = 5 -> 4
      [] OTHER -> 0

Root(t) == IF t = 1 THEN 1 ELSE 4

\* A render_ctx kept in one place for all threads.
SharedContext(t) == 1

\* render_ctx is a ContextVar: its value is looked up in the current context
\* of the calling thread, and every thread has its own.
ThreadContext(t) == t

Top(stack) == stack[Len(stack)]

SetTop(stack, v) == [stack EXCEPT ![Len(stack)] = v]

Pop(stack) == SubSeq(stack, 1, Len(stack) - 1)

\* render_ctx.get() in thread t.
Active(t) == Top(cstack[ThreadContext(t)])

\* A context that is not linked to the active one.
NewContextNoParent(parent, comp, t) == ContextDict(NoData, 0, comp, t)

\* render_with_context: ctx = ContextDict(); ctx.parent = render_ctx.get();
\* ctx.component = self.
NewContext(parent, comp, t) == ContextDict(NoData, parent, comp, t)

\* A finally block that leaves the variable as it is.
ResetValueKeep(value, token) == value

\* render_ctx.reset(token): the variable gets the value it had before the set
\* that made the token.
ResetValue(value, token) == token

\* An unfinished call of render_with_context: the component, the context it
\* made, the token of its set (the value before), whether it runs in a copy
\* of the caller's context (c.render()) or in the caller's own
\* (c.render_with_context()), the child to render next, and the value
\* render_ctx had for the caller when the call began.
Frame(comp, ctx, token, wrapped, before) ==
    [comp |-> comp, ctx |-> ctx, token |-> token, wrapped |-> wrapped,
     next |-> 1, before |-> before]

\* The components of a context's chain, nearest first: what a template
\* reaches through ctx.component, ctx.parent.component, ...
CompChain(cs, c) == [i \in 1..Len(ChainOf(cs, c)) |-> cs[ChainOf(cs, c)[i]].component]

\* Component comp is called in thread t, whose unfinished calls are below.
\* Through comp.render() (wrapped): __getattribute__ copies the current
\* context and runs render_with_context in the copy.  render_with_context
\* makes the context, links it to the active one and sets render_ctx to it.
Call(t, comp, wrapped, below) ==
    LET k == ThreadContext(t)
        cur == Active(t)
        n == Len(ctxs) + 1
        stack == IF wrapped THEN Append(cstack[k], cur) ELSE cstack[k]
    IN /\ ctxs' = Append(ctxs, NewContext(cur, comp, t))
       /\ cstack' = [cstack EXCEPT ![k] = SetTop(stack, n)]
       /\ frames' = [frames EXCEPT ![t] = Append(below, Frame(comp, n, cur, wrapped, cur))]

\* The innermost call of thread t ends: the finally block resets render_ctx
\* with the token, and a call made through render() leaves the copy it ran in.
Exit(t) ==
    LET k == ThreadContext(t)
        f == Top(frames[t])
        stack == SetTop(cstack[k], ResetValue(Top(cstack[k]), f.token))
    IN /\ cstack' = [cstack EXCEPT ![k] = IF f.wrapped THEN Pop(stack) ELSE stack]
       /\ frames' = [frames EXCEPT ![t] = Pop(@)]

\* A thread starts rendering its tree.
Start(t, wrapped) ==
    /\ tstate[t] = "idle"
    /\ Call(t, Root(t), wrapped, <<>>)
    /\ tstate' = [tstate EXCEPT ![t] = "running"]
    /\ UNCHANGED <<objVars, comps, app, elemVars, handler, tout, raiser, last>>

\* The running render logic renders its next child.
CallChild(t, wrapped) ==
    /\ tstate[t] = "running"
    /\ Top(frames[t]).next <= Len(CompChildren(Top(frames[t]).comp))
    /\ LET f == Top(frames[t])
       IN Call(t, CompChildren(f.comp)[f.next], wrapped,
               SetTop(frames[t], [f EXCEPT !.next = @ + 1]))
    /\ UNCHANGED <<objVars, comps, app, elemVars, handler, tout, tstate, raiser, last>>

\* The running render logic, its children rendered, resolves its own
\* templates against the active context and returns.
Return(t) ==
    /\ tstate[t] = "running"
    /\ Top(frames[t]).next > Len(CompChildren(Top(frames[t]).comp))
    /\ Top(frames[t]).comp # raiser
    /\ tout' = [tout EXCEPT ![t] =
                  Append(@, [c |-> Top(frames[t]).comp, seen |-> CompChain(ctxs, Active(t))])]
    /\ Exit(t)
    /\ tstate' = [tstate EXCEPT ![t] = IF Len(frames[t]) = 1 THEN "done" ELSE "running"]
    /\ UNCHANGED <<objVars, comps, app, elemVars, handler, ctxs, raiser, last>>

\* The running render logic raises; an exception on its way up ends each
\* call above in turn.
Raise(t) ==
    /\ \/ /\ tstate[t] = "running"
          /\ Top(frames[t]).next > Len(CompChildren(Top(frames[t]).comp))
          /\ Top(frames[t]).comp = raiser
       \/ tstate[t] = "raising"
    /\ Exit(t)
    /\ tstate' = [tstate EXCEPT ![t] = IF Len(frames[t]) = 1 THEN "raised" ELSE "raising"]
    /\ UNCHANGED <<objVars, comps, app, elemVars, handler, ctxs, tout, raiser, last>>

CallInit ==
    /\ nodes = [e \in Elems |-> LeafNode("div")]
    /\ attrs = [e \in Elems |-> <<>>]
    /\ events = [e \in Elems |-> <<>>]
    /\ handler = <<>>
    /\ ctxs = <<>>
    /\ cstack = [t \in Threads |-> <<0>>]
    /\ frames = [t \in Threads |-> <<>>]
    /\ tout = [t \in Threads |-> <<>>]
    /\ tstate = [t \in Threads |-> "idle"]
    /\ raiser \in {0, 2, 3, 5}
    /\ NoObjs
    /\ NoComps
    /\ last = [op |-> "init"]

CallStart == \E t \in Threads, wrapped \in BOOLEAN : Start(t, wrapped)

CallRenderChild == \E t \in Threads, wrapped \in BOOLEAN : CallChild(t, wrapped)

CallReturn == \E t \in Threads : Return(t)

CallRaise == \E t \in Threads : Raise(t)

CallNext == CallStart \/ CallRenderChild \/ CallReturn \/ CallRaise

SpecCall == CallInit /\ [][CallNext]_vars

\* ---------------------------------------------------- render calls: properties
AllFrames == {<<t, i>> : t \in Threads, i \in 1..2 * Cardinality(Comps)}

LiveFrames == {ti \in AllFrames : ti[2] <= Len(frames[ti[1]])}

\* C7: when a render call has finished, by returning or by raising, the
\* active context of its thread is the one that was active before the call:
\* at every moment render_ctx is the context of the thread's innermost
\* unfinished call (None when it has none), and that is what was active
\* when the call above it began.
C7_StackDiscipline ==
    \A t \in Threads :
        /\ Active(t) = (IF frames[t] = <<>> THEN 0 ELSE Top(frames[t]).ctx)
        /\ \A i \in 1..Len(frames[t]) :
              frames[t][i].before = (IF i = 1 THEN 0 ELSE frames[t][i - 1].ctx)

\* Thread 1 called render_with_context() of component 1 directly; inside
\* it component 2 was rendered and has returned and component 3 has raised:
\* both calls are over and the context of component 1 is active again.
C7_Witness ==
    /\ tstate[1] = "raising"
    /\ Len(frames[1]) = 1
    /\ Len(tout[1]) = 1
    /\ Active(1) = frames[1][1].ctx
    /\ \E c \in 1..Len(ctxs) : ctxs[c].component = 2 /\ ctxs[c].parent = frames[1][1].ctx
    /\ Len(cstack[1]) = 1

\* The component and its ancestors in its tree, nearest first.
RECURSIVE Ancestry(_)
Ancestry(c) == IF c = 0 THEN <<>> ELSE <<c>> \o Ancestry(CompParent(c))

\* C8: while a component's render logic runs, the active context is one
\* made for that call alone, its component is that component and its parent
\* is the context that was active when the call began; so the chain of a
\* component's context is the contexts of its ancestors in the tree, nearest
\* first.
C8_ParentLinked ==
    /\ \A t \in Threads :
          tstate[t] = "running" => Active(t) = Top(frames[t]).ctx
    /\ \A ti \in LiveFrames :
          LET f == frames[ti[1]][ti[2]]
          IN /\ ctxs[f.ctx].component = f.comp
             /\ ctxs[f.ctx].parent = f.before
             /\ \A tj \in LiveFrames \ {ti} : frames[tj[1]][tj[2]].ctx # f.ctx
             /\ CompChain(ctxs, f.ctx) = Ancestry(f.comp)

\* Component 3 runs inside component 1 after component 2 has returned: its
\* context's parent is the context of 1.
C8_Witness ==
    /\ tstate[1] = "running"
    /\ Len(frames[1]) = 2
    /\ frames[1][2].comp = 3
    /\ Len(tout[1]) = 1
    /\ ctxs[frames[1][2].ctx].parent = frames[1][1].ctx
    /\ CompChain(ctxs, Active(1)) = <<3, 1>>

\* What rendering the tree under c alone produces, below the ancestors anc:
\* the children's output, then what the component's own templates see.
RECURSIVE AloneOut(_, _)
AloneOut(c, anc) ==
    Flatten([i \in 1..Len(CompChildren(c)) |-> AloneOut(CompChildren(c)[i], <<c>> \o anc)])
        \o <<[c |-> c, seen |-> <<c>> \o anc]>>

RECURSIVE TreeOf(_)
TreeOf(c) == {c} \cup UNION {TreeOf(CompChildren(c)[i]) : i \in 1..Len(CompChildren(c))}

\* C9: with two threads rendering disjoint trees, the chain of the context
\* active in a thread holds only contexts made by that thread's own calls,
\* and a thread's render returns what rendering its tree alone returns (and
\* raises only if that raises).
C9_ThreadsIsolated ==
    \A t \in Threads :
        /\ frames[t] # <<>> =>
              \A i \in 1..Len(ChainOf(ctxs, Active(t))) :
                  ctxs[ChainOf(ctxs, Active(t))[i]].owner = t
        /\ tstate[t] = "done" => tout[t] = AloneOut(Root(t), <<>>)
        /\ tstate[t] = "raised" => raiser \in TreeOf(Root(t))

\* Thread 2 has finished its tree while thread 1 is inside component 2.
C9_Witness ==
    /\ tstate[2] = "done"
    /\ tstate[1] = "running"
    /\ Len(frames[1]) = 2
    /\ \E c \in 1..Len(ctxs) : ctxs[c].owner = 2 /\ c > frames[1][1].ctx /\ c < frames[1][2].ctx
    /\ tout[2] = AloneOut(4, <<>>)

\* ------------------------------------------------------ corex: the component tree
\* Most entries the children lists hold together.
MaxKids == 3

\* component.parent = self; self.children.append(component)
add_child(cs, self, component) ==
    LET cs1 == [cs EXCEPT ![component].parent = self]
    IN  [cs1 EXCEPT ![self].children = Append(@, component)]

\* for component in components: self.add_child(component)
RECURSIVE add_children(_, _, _)
add_children(cs, self, components) ==
    IF components = <<>> THEN cs
    ELSE add_children(add_child(cs, self, Head(components)), self, Tail(components))

\* How many entries the children lists hold together.
RECURSIVE KidsTotal(_, _)
KidsTotal(cs, S) ==
    IF S = {} THEN 0
    ELSE LET c == CHOOSE x \in S : TRUE
         IN  Len(cs[c].children) + KidsTotal(cs, S \ {c})

\* How often component c occurs in the list kids.
Occurs(c, kids) == Cardinality({i \in 1..Len(kids) : kids[i] = c})

\* index = self.parent.children.index(self): the first place that holds c.
IndexOf(c, kids) == CHOOSE i \in 1..Len(kids) : kids[i] = c /\ \A j \in 1..(i - 1) : kids[j] # c

\* Component.replace_with: whether it raised (ValueError, of the parent test
\* or of list.index) and the components afterwards.
replace_with(cs, self, component) ==
    IF cs[self].parent = 0 THEN [raised |-> TRUE, cs |-> cs]
    ELSE LET parent == cs[self].parent
         IN  IF Occurs(self, cs[parent].children) = 0 THEN [raised |-> TRUE, cs |-> cs]
             ELSE LET index == IndexOf(self, cs[parent].children)
                      cs1 == [cs EXCEPT ![parent].children[index] = component]
                      cs2 == [cs1 EXCEPT ![component].parent = parent]
                  IN  [raised |-> FALSE, cs |-> [cs2 EXCEPT ![self].parent = 0]]

\* The deepest call chain find_by_id and render make on components that are
\* not their own descendants; a deeper chain never ends (RecursionError).
MaxDepth == Cardinality(Components)

\* What a call on a component gives: a value, or RecursionError.
Found(c) == [ok |-> TRUE, val |-> c]

NotFound == [ok |-> TRUE, val |-> 0]

RecursionError == [ok |-> FALSE, val |-> 0]

\* find_by_id that looks at the component and its own children only.
RECURSIVE find_by_id_shallow(_, _, _, _)
find_by_id_shallow(cs, self, id, depth) ==
    IF cs[self].id = id THEN Found(self)
    ELSE LET hits == {i \in 1..Len(cs[self].children) : cs[cs[self].children[i]].id = id}
         IN  IF hits = {} THEN NotFound
             ELSE Found(cs[self].children[CHOOSE i \in hits : \A j \in hits : i <= j])

\* Component.find_by_id, called at the given depth of the call chain: self
\* first, then the children in order, the first hit wins.
RECURSIVE find_by_id(_, _, _, _)
RECURSIVE find_in_children(_, _, _, _)
find_by_id(cs, self, id, depth) ==
    IF depth > MaxDepth THEN RecursionError
    ELSE IF cs[self].id = id THEN Found(self)
    ELSE find_in_children(cs, cs[self].children, id, depth)

find_in_children(cs, kids, id, depth) ==
    IF kids = <<>> THEN NotFound
    ELSE LET found == find_by_id(cs, Head(kids), id, depth + 1)
         IN  IF ~found.ok \/ found.val # 0 THEN found
             ELSE find_in_children(cs, Tail(kids), id, depth)

CorexCall(op, self, components, raised, id, result) ==
    [op |-> op, self |-> self, components |-> components, before |-> comps,
     raised |-> raised, id |-> id, result |-> result]

CorexInit ==
    /\ attrs = <<<<>>, <<>>>>
    /\ events = [e \in Elems |-> <<>>]
    /\ nodes = [e \in Elems |-> LeafNode("div")]
    /\ handler = <<>>
    /\ ctxs = <<>>
    /\ NoCalls
    /\ NoObjs
    /\ NoComps
    /\ last = [op |-> "init", self |-> 0, components |-> <<>>, before |-> <<>>,
               raised |-> FALSE, id |-> "", result |-> NotFound]

CorexAddChild ==
    \E self \in Components, component \in Components :
        /\ KidsTotal(comps, Components) < MaxKids
        /\ comps' = add_child(comps, self, component)
        /\ last' = CorexCall("add_child", self, <<component>>, FALSE, "", NotFound)
        /\ UNCHANGED <<nodes, attrs, events, handler, ctxs, callVars, objVars, app>>

CorexAddChildren ==
    \E self \in Components, c1 \in Components, c2 \in Components :
        /\ KidsTotal(comps, Components) + 2 <= MaxKids
        /\ comps' = add_children(comps, self, <<c1, c2>>)
        /\ last' = CorexCall("add_children", self, <<c1, c2>>, FALSE, "", NotFound)
        /\ UNCHANGED <<nodes, attrs, events, handler, ctxs, callVars, objVars, app>>

CorexReplaceWith ==
    \E self \in Components, component \in Components :
        LET r == replace_with(comps, self, component)
        IN  /\ comps' = r.cs
            /\ last' = CorexCall("replace_with", self, <<component>>, r.raised, "", NotFound)
            /\ UNCHANGED <<nodes, attrs, events, handler, ctxs, callVars, objVars, app>>

CorexFindById ==
    \E self \in Components, id \in RequestIds :
        /\ last' = CorexCall("find_by_id", self, <<>>, FALSE, id, find_by_id(comps, self, id, 1))
        /\ UNCHANGED <<comps, nodes, attrs, events, handler, ctxs, callVars, objVars, app>>

CorexNext == CorexAddChild \/ CorexAddChildren \/ CorexReplaceWith \/ CorexFindById

SpecCorex == CorexInit /\ [][CorexNext]_vars

\* Components that are only ever given children.
CorexAddNext == CorexAddChild \/ CorexAddChildren

SpecCorexAdd == CorexInit /\ [][CorexAddNext]_vars

\* ------------------------------------------------------------ corex: properties
\* C20: after any sequence of add_child / add_children calls, parent pointers
\* and children lists agree: a component whose parent is p occurs exactly once
\* in p's children, every member of p's children has parent p, and the child
\* just added is the last of its parent's children.
C20_TreeConsistent ==
    /\ \A c \in Components, p \in Components :
           comps[c].parent = p => Occurs(c, comps[p].children) = 1
    /\ \A p \in Components : \A i \in 1..Len(comps[p].children) :
           comps[comps[p].children[i]].parent = p
    /\ last.op \in {"add_child", "add_children"} =>
           /\ comps[last.self].children # <<>>
           /\ comps[last.self].children[Len(comps[last.self].children)] =
                  last.components[Len(last.components)]

\* What add_child and add_children do keep: the components handed over are
\* appended in order to the end of the receiver's children, each has the
\* receiver as its parent afterwards, and no other list or pointer changes.
AddedAtEnd ==
    last.op \in {"add_child", "add_children"} =>
        /\ comps[last.self].children = last.before[last.self].children \o last.components
        /\ \A i \in 1..Len(last.components) : comps[last.components[i]].parent = last.self
        /\ \A c \in Components :
               /\ c # last.self => comps[c].children = last.before[c].children
               /\ Occurs(c, last.components) = 0 => comps[c].parent = last.before[c].parent

\* A component that was given to two parents: it is held by both and points
\* at the second.
MovedChild ==
    \E c \in Components, p \in Components, q \in Components :
        /\ p # q
        /\ Occurs(c, comps[p].children) = 1
        /\ Occurs(c, comps[q].children) = 1
        /\ comps[c].parent = q

\* C21: for a component c with parent p that sits at index i of p's children,
\* c.replace_with(n) puts n at index i, leaves the number of p's children and
\* every other child as they were, makes p the parent of n and None the parent
\* of c, and c is no longer among p's children.
C21_ReplaceInPlace ==
    last.op = "replace_with" =>
        LET c == last.self
            n == last.components[1]
            p == last.before[c].parent
        IN  p # 0 =>
                \A i \in 1..Len(last.before[p].children) :
                    last.before[p].children[i] = c =>
                        /\ ~last.raised
                        /\ Len(comps[p].children) = Len(last.before[p].children)
                        /\ comps[p].children[i] = n
                        /\ \A j \in 1..Len(comps[p].children) :
                               j # i => comps[p].children[j] = last.before[p].children[j]
                        /\ comps[n].parent = p
                        /\ comps[c].parent = 0
                        /\ Occurs(c, comps[p].children) = 0

\* What replace_with does keep: when c is held once by its parent p and n is
\* another component, n takes the place of c, p becomes the parent of n, c is
\* left without parent and out of p's children, and nothing else changes.
ReplacedOnce ==
    last.op = "replace_with" =>
        LET c == last.self
            n == last.components[1]
            p == last.before[c].parent
        IN  (p # 0 /\ n # c /\ Occurs(c, last.before[p].children) = 1) =>
                LET i == IndexOf(c, last.before[p].children)
                IN  /\ ~last.raised
                    /\ comps[p].children = [last.before[p].children EXCEPT ![i] = n]
                    /\ comps[n].parent = p
                    /\ comps[c].parent = 0
                    /\ Occurs(c, comps[p].children) = 0
                    /\ \A d \in Components :
                           /\ d # p => comps[d].children = last.before[d].children
                           /\ d \notin {c, n} => comps[d].parent = last.before[d].parent

\* A component without parent cannot be replaced: ValueError, nothing changes.
ReplaceNeedsParent ==
    (last.op = "replace_with" /\ last.before[last.self].parent = 0) =>
        last.raised /\ comps = last.before

\* The components that the children lists of S hold.
KidsOf(cs, S) ==
    UNION {{cs[c].children[i] : i \in 1..Len(cs[c].children)} : c \in S}

\* S and every component reached from it through children lists.
RECURSIVE Reach(_, _)
Reach(cs, S) ==
    LET T == S \cup KidsOf(cs, S)
    IN  IF T = S THEN S ELSE Reach(cs, T)

\* What hangs under c is a tree or a dag: no component reached from c is
\* reached from its own children.
NoCycleUnder(cs, c) ==
    \A d \in Reach(cs, {c}) : d \notin Reach(cs, KidsOf(cs, {d}))

\* C25: on a tree built with add_child, add_children and replace_with,
\* root.find_by_id(x) returns a component with id x that is the root or one
\* of its descendants when there is one, and None when there is none.
C25_FindById ==
    (last.op = "find_by_id" /\ NoCycleUnder(comps, last.self)) =>
        LET hits == {d \in Reach(comps, {last.self}) : comps[d].id = last.id}
        IN  /\ last.result.ok
            /\ hits # {} => last.result.val \in hits
            /\ hits = {} => last.result.val = 0

\* Component 2 holds 3 and 3 holds 1; the id of 1 is looked up from 2 and
\* component 1, a grandchild, is returned.
C25_Witness ==
    /\ last.op = "find_by_id"
    /\ last.self = 2
    /\ last.id = "a"
    /\ comps[2].children = <<3>>
    /\ comps[3].children = <<1>>
    /\ comps[1].children = <<>>
    /\ last.result = Found(1)

\* Where a component is its own descendant, looking up an id that no component
\* there has never ends: RecursionError.
FindInCycle ==
    (last.op = "find_by_id" /\ ~NoCycleUnder(comps, last.self)
        /\ \A d \in Reach(comps, {last.self}) : comps[d].id # last.id) =>
        last.result = RecursionError

\* ------------------------------------------------------------- corex: the app
\* Most entries the children lists hold together under the app.
MaxAppKids == 2

\* The components that are ButtonComponents: component 3 is
\* ButtonComponent(action="inc", component_id="a", id="b").
Buttons == {3}

ButtonAction(c) == "inc"

ButtonTarget(c) == "a"

\* What an action handler does: it returns the component it was given, it
\* returns another component, or it raises.
ActionHandlers == {"same", "other", "raise"}

\* One piece of markup: an opening or closing tag with the attributes it has.
Tag(t, tag, id, post, target) ==
    [t |-> t, tag |-> tag, id |-> id, post |-> post, target |-> target]

\* hx-post="/components/{self.id}/action/{self.action}", by path segments.
HxPost(cs, c) == <<"components", cs[c].id, "action", ButtonAction(c)>>

\* ButtonComponent.render
ButtonRender(cs, c) ==
    <<Tag("open", "button", cs[c].id, HxPost(cs, c), <<"#", ButtonTarget(c)>>),
      Tag("close", "button", "", <<>>, <<>>)>>

\* Component.render at the given depth of the call chain: the div with the
\* id around the renders of the children, or RecursionError.
Rendered(html) == [ok |-> TRUE, val |-> html]

RECURSIVE render_component(_, _, _)
RECURSIVE render_children(_, _, _)
render_component(cs, c, depth) ==
    IF depth > MaxDepth THEN [ok |-> FALSE, val |-> <<>>]
    ELSE IF c \in Buttons THEN Rendered(ButtonRender(cs, c))
    ELSE LET inner == render_children(cs, cs[c].children, depth)
         IN  IF ~inner.ok THEN inner
             ELSE Rendered(<<Tag("open", "div", cs[c].id, <<>>, <<>>)>> \o inner.val
                           \o <<Tag("close", "div", "", <<>>, <<>>)>>)

render_children(cs, kids, depth) ==
    IF kids = <<>> THEN Rendered(<<>>)
    ELSE LET first == render_component(cs, Head(kids), depth + 1)
         IN  IF ~first.ok THEN first
             ELSE LET rest == render_children(cs, Tail(kids), depth)
                  IN  IF ~rest.ok THEN rest ELSE Rendered(first.val \o rest.val)

\* The route /components/<component_id>/action/<action_name>/: whether a path
\* matches it.
RouteMatches(path) == Len(path) = 4 /\ path[1] = "components" /\ path[3] = "action"

\* A response: status, body, the handler calls made (handler, component) and
\* the components afterwards.
Response(status, body, invoked, cs) ==
    [status |-> status, body |-> body, invoked |-> invoked, cs |-> cs]

\* _component_action that does not look at what is registered: where no
\* handler is, it behaves as under one that returns its component.
component_action_unchecked(ap, cs, component_id, action_name, returned) ==
    IF ap.root_component = 0 THEN Response(400, <<>>, <<>>, cs)
    ELSE LET found == find_by_id(cs, ap.root_component, component_id, 1)
         IN  IF ~found.ok THEN Response(500, <<>>, <<>>, cs)
             ELSE IF found.val = 0 THEN Response(404, <<>>, <<>>, cs)
             ELSE LET html == render_component(cs, found.val, 1)
                  IN  Response(IF html.ok THEN 200 ELSE 500, html.val,
                               <<<<component_id, action_name, found.val>>>>, cs)

\* CorexApp._component_action; returned is the component the handler returns
\* when it returns another one.
component_action(ap, cs, component_id, action_name, returned) ==
    IF ap.root_component = 0 THEN Response(400, <<>>, <<>>, cs)
    ELSE LET found == find_by_id(cs, ap.root_component, component_id, 1)
         IN  IF ~found.ok THEN Response(500, <<>>, <<>>, cs)
             ELSE IF found.val = 0 THEN Response(404, <<>>, <<>>, cs)
             ELSE IF ap.component_actions[<<component_id, action_name>>] = "none"
                  THEN Response(404, <<>>, <<>>, cs)
             ELSE LET action_handler == ap.component_actions[<<component_id, action_name>>]
                      component == found.val
                      invoked == <<<<component_id, action_name, component>>>>
                      new_component == IF action_handler = "same" THEN component ELSE returned
                  IN  IF action_handler = "raise" THEN Response(500, <<>>, invoked, cs)
                      ELSE LET r == IF new_component # component
                                    THEN replace_with(cs, component, new_component)
                                    ELSE [raised |-> FALSE, cs |-> cs]
                           IN  IF r.raised THEN Response(500, <<>>, invoked, cs)
                               ELSE LET html == render_component(r.cs, new_component, 1)
                                    IN  IF html.ok
                                        THEN Response(200, html.val, invoked, r.cs)
                                        ELSE Response(500, <<>>, invoked, r.cs)

AppCall(op, component_id, action_name, returned, button, r) ==
    [op |-> op, id |-> component_id, name |-> action_name, returned |-> returned,
     button |-> button, status |-> r.status, body |-> r.body, invoked |-> r.invoked,
     before |-> IF op = "setup" THEN <<>> ELSE comps]

\* The components a handler registered for the id and name may return when it
\* returns another component than the one it is given (0: it returns none).
Returnable(component_id, action_name) ==
    IF app.component_actions[<<component_id, action_name>>] = "other"
    THEN Components ELSE {0}

NoResponse == Response(0, <<>>, <<>>, <<>>)

AppInit ==
    /\ attrs = <<<<>>, <<>>>>
    /\ events = [e \in Elems |-> <<>>]
    /\ nodes = [e \in Elems |-> LeafNode("div")]
    /\ handler = <<>>
    /\ ctxs = <<>>
    /\ NoCalls
    /\ NoObjs
    /\ NoComps
    /\ last = AppCall("init", "", "", 0, 0, NoResponse)

\* CorexApp.set_root_component, once, with a component that is no button.
AppSetRoot ==
    \E component \in Components \ Buttons :
        /\ app.root_component = 0
        /\ app' = [app EXCEPT !.root_component = component]
        /\ last' = AppCall("setup", "", "", 0, 0, NoResponse)
        /\ UNCHANGED <<nodes, attrs, events, handler, ctxs, callVars, objVars, comps>>

\* CorexApp.register_component_action
AppRegister ==
    \E component_id \in {"a", "b"}, action_handler \in ActionHandlers :
        /\ app.component_actions[<<component_id, "inc">>] = "none"
        /\ app' = [app EXCEPT !.component_actions[<<component_id, "inc">>] = action_handler]
        /\ last' = AppCall("setup", "", "", 0, 0, NoResponse)
        /\ UNCHANGED <<nodes, attrs, events, handler, ctxs, callVars, objVars, comps>>

AppAddChild ==
    \E self \in Components, component \in Components :
        /\ KidsTotal(comps, Components) < MaxAppKids
        /\ comps' = add_child(comps, self, component)
        /\ last' = AppCall("setup", "", "", 0, 0, NoResponse)
        /\ UNCHANGED <<nodes, attrs, events, handler, ctxs, callVars, objVars, app>>

\* A request to /components/<component_id>/action/<action_name>/.
AppRequest ==
    \E component_id \in RequestIds, action_name \in ActionNames :
      \E returned \in Returnable(component_id, action_name) :
        LET r == component_action(app, comps, component_id, action_name, returned)
        IN  /\ comps' = r.cs
            /\ last' = AppCall("request", component_id, action_name, returned, 0, r)
            /\ UNCHANGED <<nodes, attrs, events, handler, ctxs, callVars, objVars, app>>

\* A click on a button of the served page: the request its hx-post names.
AppClick ==
    \E button \in Buttons :
      \E returned \in Returnable(comps[button].id, ButtonAction(button)) :
        /\ app.root_component # 0
        /\ button \in Reach(comps, {app.root_component})
        /\ LET path == ButtonRender(comps, button)[1].post
               r == component_action(app, comps, path[2], path[4], returned)
           IN  /\ RouteMatches(path)
               /\ comps' = r.cs
               /\ last' = AppCall("click", path[2], path[4], returned, button, r)
               /\ UNCHANGED <<nodes, attrs, events, handler, ctxs, callVars, objVars, app>>

AppNext == AppSetRoot \/ AppRegister \/ AppAddChild \/ AppRequest \/ AppClick

SpecApp == AppInit /\ [][AppNext]_vars

\* ----------------------------------------------------------- corex app: properties
\* The components the app serves: the root and what its children lists reach.
Served(cs) == IF app.root_component = 0 THEN {} ELSE Reach(cs, {app.root_component})

\* A request was answered: a direct one, or the one a click issued.
Requested == last.op \in {"request", "click"}

\* A component the handler has newly made: it has no parent and no children
\* and no children list holds it.
IsNew(cs, n) ==
    /\ n # 0
    /\ n # app.root_component
    /\ cs[n].parent = 0
    /\ cs[n].children = <<>>
    /\ \A c \in Components : Occurs(n, cs[c].children) = 0

\* Under the root parent pointers and children lists agree and nothing is
\* held twice.
ServedTree(cs) ==
    /\ app.root_component # 0
    /\ cs[app.root_component].parent = 0
    /\ \A p \in Served(cs) : \A i \in 1..Len(cs[p].children) :
           /\ cs[cs[p].children[i]].parent = p
           /\ Occurs(cs[p].children[i], cs[p].children) = 1
           /\ cs[p].children[i] # app.root_component

\* C22: for a component of the served tree, the root included, with a
\* registered action, the request for its id and the action name invokes the
\* registered handler; when the handler returns a new component the answer is
\* 200 with the render of the new component, and the new component has the
\* old one's place in the tree the app serves.
C22_ActionSuccess ==
    (/\ Requested
     /\ ServedTree(last.before)
     /\ \E c \in Served(last.before) : last.before[c].id = last.id
     /\ app.component_actions[<<last.id, last.name>>] # "none") =>
        /\ Len(last.invoked) = 1
        /\ last.invoked[1][1] = last.id
        /\ last.invoked[1][2] = last.name
        /\ last.invoked[1][3] \in Served(last.before)
        /\ last.before[last.invoked[1][3]].id = last.id
        /\ (/\ app.component_actions[<<last.id, last.name>>] = "other"
            /\ IsNew(last.before, last.returned)) =>
               LET old == last.invoked[1][3]
               IN  /\ last.status = 200
                   /\ last.body = render_component(comps, last.returned, 1).val
                   /\ last.returned \in Served(comps)
                   /\ old \notin Served(comps)

\* What the app does when the component is not the root: the handler is
\* invoked with the first component of that id, and a new component that it
\* returns is rendered in the answer and has the old one's place.
NonRootReplaced ==
    (/\ Requested
     /\ ServedTree(last.before)
     /\ \E c \in Served(last.before) : last.before[c].id = last.id
     /\ last.before[app.root_component].id # last.id
     /\ app.component_actions[<<last.id, last.name>>] = "other"
     /\ IsNew(last.before, last.returned)) =>
        LET old == last.invoked[1][3]
            p == last.before[old].parent
        IN  /\ Len(last.invoked) = 1
            /\ last.status = 200
            /\ last.body = render_component(comps, last.returned, 1).val
            /\ comps[p].children =
                   [last.before[p].children EXCEPT
                        ![IndexOf(old, last.before[p].children)] = last.returned]
            /\ last.returned \in Served(comps)
            /\ old \notin Served(comps)

\* The root is never replaced: a handler for the root's id that returns a new
\* component is answered with 500 and the app serves the old root unchanged.
RootNotReplaced ==
    (/\ Requested
     /\ ServedTree(last.before)
     /\ last.before[app.root_component].id = last.id
     /\ app.component_actions[<<last.id, last.name>>] = "other"
     /\ IsNew(last.before, last.returned)) =>
        /\ last.invoked = <<<<last.id, last.name, app.root_component>>>>
        /\ last.status = 500
        /\ comps = last.before

NoRootAnswer ==
    (Requested /\ app.root_component = 0) =>
        last.status = 400 /\ last.invoked = <<>> /\ comps = last.before

\* C24: a click on a rendered ButtonComponent(action=a, component_id=t)
\* issues the request for component t and action a, so that the handler
\* registered for t and a is the one invoked.
C24_ButtonTarget ==
    last.op = "click" =>
        /\ last.id = ButtonTarget(last.button)
        /\ last.name = ButtonAction(last.button)
        /\ \A i \in 1..Len(last.invoked) :
               /\ last.invoked[i][1] = ButtonTarget(last.button)
               /\ last.invoked[i][2] = ButtonAction(last.button)

\* What a click does issue: the request for the button's own id and its
\* action.
ClickNamesButton ==
    last.op = "click" =>
        /\ last.id = last.before[last.button].id
        /\ last.name = ButtonAction(last.button)
        /\ \A i \in 1..Len(last.invoked) : last.invoked[i][1] = last.before[last.button].id

\* ------------------------------------------------------- binding once more
\* Longest trigger that is bound once more.
MaxTrigger == 16

\* Handlers as a caller builds them, with triggers that a first binding
\* rewrites in full.
RebindHandlers ==
    {EventHandlerInit(RuleA, "get", t, <<>>) : t \in {TClick, TFromId, TFromWord, <<>>}}

RebindInit ==
    /\ attrs = <<AttrsWithId(IdBtn1), AttrsWithId(IdMyDiv)>>
    /\ events = [e \in Elems |-> <<>>]
    /\ nodes = [e \in Elems |-> LeafNode("div")]
    /\ handler = <<>>
    /\ ctxs = <<>>
    /\ NoCalls
    /\ NoObjs
    /\ NoComps
    /\ last = ListCall("init", 0, 0, <<>>, FALSE)

RebindAppend ==
    \E e \in Elems, v \in RebindHandlers :
        TotalEvents < MaxBound /\ ListAppend(e, v)

\* The handler's trigger, if it has one, is short enough to be bound again.
Rebindable(h) == DataHas(h, "hx-trigger") => Len(DataGet(h, "hx-trigger")) <= MaxTrigger

\* el.events[i] = el.events[i]
RebindSetItem ==
    \E e \in Elems : \E i \in 1..Len(events[e]) :
        /\ Rebindable(events[e][i])
        /\ ListSetItem(e, i, events[e][i])

\* el.events.extend(el.events): the items are listed first, then appended.
RebindExtend ==
    \E e \in Elems :
        /\ events[e] # <<>>
        /\ TotalEvents + Len(events[e]) <= MaxBound
        /\ \A i \in 1..Len(events[e]) : Rebindable(events[e][i])
        /\ ListExtend(e, events[e])

RebindDelItem ==
    \E e \in Elems : \E i \in 1..Len(events[e]) : ListDelItem(e, i)

RebindNext == RebindAppend \/ RebindSetItem \/ RebindExtend \/ RebindDelItem

SpecRebind == RebindInit /\ [][RebindNext]_vars

\* element.attrs["id"] = id
ReassignId ==
    \E e \in Elems, id \in {IdBtn1, IdC2, IdMyDiv} : SetAttr(e, "id", id)

ReassignNext == RebindAppend \/ RebindDelItem \/ ReassignId

SpecReassign == RebindInit /\ [][ReassignNext]_vars

\* C29: re-inserting an already-bound handler into the event list of the
\* same element, by el.events[i] = el.events[i] or by extending the list with
\* its own items, stores a handler whose trigger is the already-bound trigger,
\* whatever the element's id.
C29_RebindIdempotent ==
    (last.op \in {"setitem", "extend"} /\ ~last.raised) =>
        \A k \in 1..Len(last.args) :
            DataHas(last.args[k], "hx-trigger") =>
                Trigger(events[last.e][last.i + k - 1]) = Trigger(last.args[k])

\* What binding once more keeps: the stored handler is the one handed in
\* when the element's id is made of letters, digits and underscores.
RebindWordIds ==
    (/\ last.op \in {"setitem", "extend"}
     /\ ~last.raised
     /\ \A j \in 1..Len(DataGet(attrs[last.e], "id")) :
            DataGet(attrs[last.e], "id")[j] \in WordChars) =>
        \A k \in 1..Len(last.args) : events[last.e][last.i + k - 1] = last.args[k]

\* And what it does for an id with another character: the part of the id
\* after the first such character is written once more after the id.
RebindHyphenGrows ==
    (/\ last.op = "setitem"
     /\ ~last.raised
     /\ DataGet(attrs[last.e], "id") = IdMyDiv
     /\ DataHas(last.args[1], "hx-trigger")) =>
        Trigger(events[last.e][last.i]) = Trigger(last.args[1]) \o <<"-", "d">>

\* C30: for every element and every handler with a trigger in its event
\* list, the from: clause of the trigger references the element's current
\* id, also after the id is reassigned through the attribute map.
C30_TriggersTrackId ==
    \A e \in Elems : \A i \in 1..Len(events[e]) :
        DataHas(events[e][i], "hx-trigger") =>
            FromSelectors(Trigger(events[e][i])) = {<<"#">> \o DataGet(attrs[e], "id")}

\* Assigning the id leaves every stored handler as it is.
ReassignLeavesTriggers == [][attrs' # attrs => events' = events]_vars
====
